---- MODULE Spec2Model ----
(***************************************************************************)
(* Verification model of MMM-CloudPhotos: the tick-driven cache manager    *)
(* and the display loop (TECH_DESIGN_V3.md), the earlier design's cache    *)
(* pipeline with temp files and soft deletes (TECH_DESIGN.md), the         *)
(* incremental scan and the database initialisation.                       *)
(*                                                                         *)
(* Each part of the program has its own group of variables and its own    *)
(* specification; the variables of the other groups stay at their initial  *)
(* values.                                                                 *)
(***************************************************************************)
EXTENDS Integers, Sequences, FiniteSets, TLC

\* ------------------------------------------------------------------ bounds
NumPhotos == 2          \* rows in the photos table
MaxClock == 3           \* display ticks explored (Date.now() readings)
MaxDisplayTicks == 4     \* runs of displayNextPhoto explored in the first design
MaxCacheBytes == 2      \* config.maxCacheSizeMB * 1024 * 1024, in size units
MaxLog == 2             \* change events the drive records
MaxKills == 1           \* process kills explored
PageSize == 1           \* changes per page of drive.changes.list (pageSize: 1000)
MaxTime == 3            \* provider clock, in units of five minutes
MaxRefresh == 2         \* token refreshes that succeed
MaxExpiresIn == 2       \* expires_in of a fresh token, in units of five minutes
NumFolders == 3         \* folders of the drive whose shape varies (folder 1 is the root)
ChainLen == 21          \* folders of the long chain that can hang below them
MaxFolderSpecs == 2     \* entries of config.folders
MaxEdition == 2         \* times the remote metadata changes while a scan runs
MaxScans == 2           \* full scans the sync controller starts
MaxFrames == 2          \* frames, ticks and scans counted before and during a shutdown
MaxInFlight == 2        \* downloads one tick starts
MaxEvictArg == 3        \* largest count a direct call of evictOldest is given
NumRows == 6            \* rows of the store when prefetching is followed over ticks
MaxViewedAt == 1        \* last_viewed_at values of those rows
MaxPrefetchTicks == 2   \* ticks followed
MaxRenames == 1         \* times a scan finds the metadata of a known photo changed
MaxDownloads == 3       \* calls of CacheManager.downloadPhoto in one behaviour

\* ------------------------------------------------------- program constants
PrefetchLimit == 5      \* LIMIT 5 of the prefetch query
EvictBatch == 10        \* this.evictOldest(10)
OfflineThreshold == 3   \* if (this.consecutiveFailures > 3)
maxRetries == 3         \* makeRequest(endpoint, options = {}, maxRetries = 3)
RefreshMargin == 1      \* 300000 ms, in units of five minutes
GraceSeconds == 5       \* wait for in-flight cache operations (5s timeout)
retries == 3            \* attempts of one download
DownloadTimeout == 30000 \* { timeout: 30000 } passed to the provider

NULL == 0
Photos == 1..NumPhotos

\* stats.size of the file the provider serves for photo p
SizeOf(p) == p

RECURSIVE SumOver(_, _)
SumOver(f, S) == IF S = {} THEN 0
                 ELSE LET x == CHOOSE y \in S : TRUE
                      IN f[x] + SumOver(f, S \ {x})

Min(a, b) == IF a < b THEN a ELSE b

VARIABLES
  \* photos table (TECH_DESIGN_V3.md schema)
  cached_path,          \* [Photos -> BOOLEAN]: TRUE = <cachePath>/<id>.jpg
  cached_size_bytes,    \* [Photos -> Nat], NULL when not cached
  cached_at,            \* [Photos -> BOOLEAN]: TRUE = a Date.now() value, FALSE = NULL
  last_viewed_at,       \* [Photos -> 0..MaxClock], NULL when never viewed
  \* cache directory: what is on disk under <cachePath>/<id>.jpg
  files,                \* [Photos -> {"none", "partial", "full"}]
  \* CacheManager fields
  isRunning,
  consecutiveFailures,
  \* the running tick(): its position and its locals
  tickPc,               \* "idle","size","unlink","clear","degrade","sleep","query","download","track"
  count,                \* the argument of evictOldest
  evicting,             \* photos selected by evictOldest
  photos,               \* the batch returned by the prefetch query
  results,              \* [photos -> {"pending","fulfilled","rejected"}]
  \* PhotoDisplay.displayNext: the row it selected, NULL when not running
  displaySel,
  now,                  \* Date.now(), advanced by each display tick
  \* history (not program state)
  inBody,               \* tick bodies currently executing
  lastFiringDropped,    \* the last timer firing returned at the guard
  afterCooling,         \* the cooling sleep ended and no tick has finished since
  trail,                \* history: the steps the running tick has reached, in order
  shown                 \* ids emitted since the cached set last changed

cacheVars == <<cached_path, cached_size_bytes, cached_at, last_viewed_at, files, isRunning,
               consecutiveFailures, tickPc, evicting, photos, results,
               displaySel, now, inBody, lastFiringDropped, afterCooling, shown,
              trail, count>>

VARIABLES
  \* the SQLite file at dbPath
  dbFile,               \* "missing", "corrupt" or "valid"
  hasSchema,            \* createSchema has run on this file
  photosTable,          \* ids with a row in photos
  changes_token,        \* settings row 'changes_token', NULL when absent
  \* Google Drive
  remoteFiles,          \* image files present in the monitored folders
  changeLog,            \* the changes feed: <<[fileId, removed]>>, page token = position
  \* the process: initDatabase, then scanForChanges and its caller
  storePc,              \* "open","check","caught","reopen","schema","ready","idle",
                        \* "startToken","fullScan","list","apply","saveToken","returned","failed"
  pageToken,
  response,             \* the page in hand, NULL when none
  changedPhotos,
  \* history (not program state)
  integrity,            \* how the last integrity check ended
  rowsAtOpen,           \* photos rows the file held when initDatabase opened it
  kills

storeVars == <<dbFile, hasSchema, photosTable, changes_token, remoteFiles, changeLog,
               storePc, pageToken, response, changedPhotos, integrity, rowsAtOpen,
               kills>>

VARIABLES
  \* photos table of the first design (TECH_DESIGN.md schema)
  is_deleted,           \* [Photos -> BOOLEAN]
  cachedPath,           \* [Photos -> BOOLEAN]: cached_path IS NOT NULL
  lastViewedAt,         \* [Photos -> 0..MaxDisplayTicks], NULL when never viewed
  \* cache directory
  finalFile,            \* [Photos -> BOOLEAN]: <cachePath>/<id>.jpg exists
  tempFile,             \* [Photos -> BOOLEAN]: <cachePath>/<id>_temp exists
  \* CacheManager of the first design
  isTickRunning,
  cachePc,              \* "idle","state","evict","query","download"
  downloadPc,           \* [Photos -> "none","request","stream","process","commit","catch","done"]
  \* PhotoDisplay.displayNextPhoto: the row it selected, NULL when not running
  photo,
  clock,                \* Date.now() in units of updateInterval
  \* history (not program state)
  staleAtSelect,        \* rows that were tombstoned yet cached when photo was selected
  emittedDeleted,       \* ids emitted for a row that was tombstoned when selected
  tombstonedAtTick,     \* rows that were tombstoned yet cached when the current tick began
  rowsAtSelect,         \* rows the display query could return when photo was selected
  failedWith,           \* [Photos -> "none" or the error the last download attempt threw]
  sent                  \* DISPLAY_PHOTO notifications: [id, rows] in the order sent

designVars == <<is_deleted, cachedPath, lastViewedAt, finalFile, tempFile, isTickRunning,
                cachePc, downloadPc, photo, clock, staleAtSelect, emittedDeleted,
                tombstonedAtTick, rowsAtSelect, sent, failedWith>>

VARIABLES
  \* OneDriveProvider
  accessToken,          \* the token held; 1, 2, ... name the tokens issued
  tokenExpiry,          \* this.tokenExpiry, in units of five minutes
  time,                 \* Date.now(), in units of five minutes
  op,                   \* "none","initialize","makeRequest","downloadPhoto"
  opPc,                 \* "idle","load","loadRefresh","online","token","refresh","send",
                        \* "sleep","returned","thrown","loadWrite","write",
                        \* "loadWriting","writing","crashed"
  attempt,              \* let attempt of makeRequest
  error,                \* class of the last error caught, "none" when there is none
  \* history (not program state)
  requests,             \* HTTP requests the operation has sent to the Graph API
  waits,                \* the delays the operation has slept, in ms
  sentToken,            \* the token the last request carried
  startToken,           \* the token held when the operation started
  startTime,            \* Date.now() when the operation started
  startExpiry,          \* this.tokenExpiry when the operation started
  \* the file at config.tokenPath
  tokenFile,            \* [content: "complete","empty","partial"; access_token]
  \* history (not program state)
  probe                 \* how the DNS resolution of this operation's isOnline ended, "none" before

providerVars == <<accessToken, tokenExpiry, time, op, opPc, attempt, error, requests,
                  waits, sentToken, startToken, startTime, startExpiry, tokenFile, probe>>

VARIABLES
  \* the drive
  children,             \* [Folders -> SUBSET Folders]: the folder items each listing returns
  parentOf,             \* [Folders -> Folders or NULL]: item.parentReference.id
  edition,              \* the metadata (name) every listing returns at this moment
  \* OneDriveProvider.fullScan and scanFolder
  scanPc,               \* "idle","loop","scan","scanned","returned","failed"
  folderConfig,         \* the FolderSpec being scanned: [id, depth]
  specsDone,            \* entries of config.folders already scanned
  stack,                \* scanFolder activations: [folderId, currentDepth, todo]
  visitedFolders,
  photosOut,            \* photos of the outermost scanFolder call, in push order
  allPhotos,
  uniquePhotos,
  \* OneDriveProvider.getChanges, isPhotoInMonitoredFolders and isDescendantOf
  memPc,                \* "idle","match","walk","answered"
  item,                 \* the change being processed: [id, deleted, parentId]
  folders,              \* config.folders: the folderConfig.id of every entry
  idx,                  \* position of for (const folderConfig of folders)
  currentId,
  visited,
  depth,
  changedIds,           \* ids pushed to changedPhotos
  deletedIds,
  \* history (not program state)
  listed,               \* folders whose children the current scanFolder call has listed
  lookups,              \* parent lookups of the current isDescendantOf call
  lookupFailed          \* a parent lookup of this membership check threw

scanVars == <<children, parentOf, edition, scanPc, folderConfig, specsDone, stack,
              visitedFolders, photosOut, allPhotos, uniquePhotos, memPc, item, folders,
              idx, currentId, visited, depth, changedIds, deletedIds, listed, lookups,
              lookupFailed>>

\* what a folder scan leaves alone
walkVars == <<memPc, item, folders, idx, currentId, visited, depth, changedIds,
              deletedIds, lookups, lookupFailed>>

\* what a membership check leaves alone
fullScanVars == <<scanPc, folderConfig, specsDone, stack, visitedFolders, photosOut,
                  allPhotos, uniquePhotos, listed>>

VARIABLES
  \* the sync controller's full scan and the rows it reconciles
  providerId,           \* [Photos -> Providers or NULL]: NULL where the store has no row
  lastSeenInScanAt,     \* [Photos -> 0..MaxScans]
  tombstoned,           \* [Photos -> BOOLEAN]
  driveFiles,           \* photos the scanned provider holds under the configured folders
  syncNow,              \* the clock the scan times are read from
  scanStartTime,
  scanEndTime,
  syncPc,               \* "idle","listing","upsert","drained","aborted"
  scanResult,           \* what Provider.fullScan returned
  upserted              \* photos of scanResult already written

syncVars == <<providerId, lastSeenInScanAt, tombstoned, driveFiles, syncNow,
              scanStartTime, scanEndTime, syncPc, scanResult, upserted>>

VARIABLES
  \* the runtime: the three periodic tasks and the shutdown sequence
  displayTimer,         \* the display interval is registered
  timer,                \* cacheManager.timer is set (null after stop())
  syncTimer,            \* the scan interval is registered
  inFlight,             \* downloads of the running tick that have not settled
  cancelled,            \* the in-flight downloads were told to stop
  syncBusy,             \* a scan is waiting for a provider call
  waited,               \* seconds the shutdown has waited for writes to settle
  storeState,           \* "open","flushed","closed"
  stopPc,               \* "running","display","cache","settle","sync","flush","close","stopped"
  frames,               \* frames emitted
  ticks,                \* tick bodies started
  scans                 \* scans started

runtimeVars == <<displayTimer, timer, syncTimer, inFlight, cancelled, syncBusy, waited,
                 storeState, stopPc, frames, ticks, scans>>

VARIABLES
  \* CacheManager.downloadPhoto(photoId) and its calls of the provider
  dlPc,                 \* "idle","call","wait","resolved","rejected"
  dlPhoto,              \* the photoId it was called with, NULL when idle
  dlAttempt,            \* the attempt in progress, 1..retries
  dlCalls,              \* history: <<[id, timeout, ok]>>, the provider calls of this download
  dlSettled             \* history: how the earlier downloads settled

downloadVars == <<dlPc, dlPhoto, dlAttempt, dlCalls, dlSettled>>

VARIABLES
  \* sync columns of the photos rows, written by PhotoDatabase.savePhotos
  filename,             \* [Photos -> 0..MaxRenames]: the name the last scan reported
  \* history (not program state)
  rowAtSave             \* the row savePhotos last wrote, as it was before: [id, row]

rowVars == <<filename, rowAtSave>>

VARIABLES
  \* a store of NumRows photos, numbered in the order the scans first saw them, and
  \* the ticks of a CacheManager that never evicts and whose downloads all succeed
  rowCached,            \* [PrefetchRows -> BOOLEAN]: cached_path IS NOT NULL
  rowViewedAt,          \* [PrefetchRows -> 0..MaxViewedAt], NULL when never viewed
  batch,                \* the rows the running tick selected, {} when no tick runs
  prefetchPc,           \* "idle","download"
  \* history (not program state)
  uncachedAtInit,       \* number of uncached rows at the start
  uncachedAtTick,       \* the uncached rows when the last tick ran its query
  lastBatch,            \* the rows the last tick selected
  ticksRun              \* ticks that have returned

prefetchVars == <<rowCached, rowViewedAt, batch, prefetchPc, uncachedAtInit,
                  uncachedAtTick, lastBatch, ticksRun>>

VARIABLES
  \* the UPDATEs of last_viewed_at that displayNext has issued and not awaited
  pendingViews          \* <<[id, at]>>, in the order they were issued

viewVars == <<pendingViews>>

VARIABLES
  \* history of the display timer (not program state)
  emitted,              \* ids a DISPLAY_PHOTO was sent for
  displayParity         \* flips at every firing of the display timer

liveVars == <<emitted, displayParity>>

vars == <<cacheVars, storeVars, designVars, providerVars, scanVars, syncVars,
          runtimeVars,
          downloadVars,
          rowVars,
          prefetchVars,
          viewVars,
          liveVars>>

\* what the cache manager and the display never touch
outsideCache == <<storeVars, designVars, providerVars, scanVars, syncVars,
  runtimeVars,
  downloadVars,
  rowVars,
  prefetchVars,
  viewVars,
  liveVars>>

\* ------------------------------------------------------------ CacheManager
Cached == {p \in Photos : cached_path[p]}
Uncached == {p \in Photos : ~cached_path[p]}

\* await this.getCacheSizeBytes()
getCacheSizeBytes == SumOver(cached_size_bytes, Cached)

\* a query without its LIMIT
OldestCachedAll(n) == {Cached}

\* SELECT id, cached_path FROM photos WHERE cached_path IS NOT NULL
\* ORDER BY last_viewed_at ASC LIMIT n   (SQLite sorts NULL first; ties in any order)
OldestCached(n) ==
  {S \in SUBSET Cached :
     /\ Cardinality(S) = Min(n, Cardinality(Cached))
     /\ \A a \in S, b \in Cached \ S : last_viewed_at[a] <= last_viewed_at[b]}

\* SELECT id FROM photos WHERE cached_path IS NULL
\* ORDER BY last_viewed_at ASC NULLS FIRST LIMIT 5
PhotosToCache ==
  {S \in SUBSET Uncached :
     /\ Cardinality(S) = Min(PrefetchLimit, Cardinality(Uncached))
     /\ \A a \in S, b \in Uncached \ S : last_viewed_at[a] <= last_viewed_at[b]}

\* history: a step that moves the tick to another place appends that place; the
\* trail is emptied when the tick returns
NextTrail ==
  IF tickPc' = "idle" THEN << >>
  ELSE IF tickPc' = tickPc THEN trail
  ELSE Append(trail, tickPc')

\* a tick that does not test the flag
TickGuardNone == FALSE

\* if (this.isRunning) return;
TickGuard == isRunning

\* the setInterval callback: tick() up to its first await
TimerFire ==
  /\ UNCHANGED outsideCache
  /\ IF TickGuard
     THEN /\ lastFiringDropped' = TRUE
          /\ UNCHANGED <<cached_path, cached_size_bytes, cached_at, last_viewed_at, files, isRunning,
                         consecutiveFailures, tickPc, evicting, photos, results,
                         displaySel, now, inBody, afterCooling, shown>>
     ELSE /\ isRunning' = TRUE
          /\ tickPc' = "size"
          /\ inBody' = inBody + 1
          /\ lastFiringDropped' = FALSE
          /\ evicting' = {}
          /\ photos' = {}
          /\ results' = << >>
          /\ UNCHANGED <<cached_path, cached_size_bytes, cached_at, last_viewed_at, files,
                         consecutiveFailures, displaySel, now, afterCooling, shown>>
  /\ trail' = NextTrail
  /\ UNCHANGED count

\* a size test that never finds the cache over its limit
OverLimitNever(cacheSize) == FALSE

\* Step 1 and the test of Step 2
OverLimit(cacheSize) == cacheSize > MaxCacheBytes

CheckCacheSize ==
  /\ UNCHANGED outsideCache
  /\ tickPc = "size"
  /\ IF OverLimit(getCacheSizeBytes)
     THEN \E S \in OldestCached(EvictBatch) :
            /\ evicting' = S
            /\ tickPc' = "unlink"
     ELSE /\ tickPc' = "degrade"
          /\ UNCHANGED evicting
  /\ UNCHANGED <<cached_path, cached_size_bytes, cached_at, last_viewed_at, files, isRunning,
                 consecutiveFailures, photos, results, displaySel, now, inBody,
                 lastFiringDropped, afterCooling, shown>>
  /\ trail' = NextTrail
  /\ count' = IF OverLimit(getCacheSizeBytes) THEN EvictBatch ELSE count

\* evictOldest: Promise.allSettled(photos.map(p => fs.promises.unlink(p.cached_path)))
EvictUnlink ==
  /\ UNCHANGED outsideCache
  /\ tickPc = "unlink"
  /\ files' = [p \in Photos |-> IF p \in evicting THEN "none" ELSE files[p]]
  /\ tickPc' = "clear"
  /\ shown' = IF evicting = {} THEN shown ELSE << >>
  /\ UNCHANGED <<cached_path, cached_size_bytes, cached_at, last_viewed_at, isRunning,
                 consecutiveFailures, evicting, photos, results, displaySel, now,
                 inBody, lastFiringDropped, afterCooling>>
  /\ trail' = NextTrail
  /\ UNCHANGED count

\* evictOldest: UPDATE photos SET cached_path = NULL, cached_size_bytes = NULL
EvictClear ==
  /\ UNCHANGED outsideCache
  /\ tickPc = "clear"
  /\ cached_path' = [p \in Photos |-> IF p \in evicting THEN FALSE ELSE cached_path[p]]
  /\ cached_size_bytes' = [p \in Photos |->
                             IF p \in evicting THEN NULL ELSE cached_size_bytes[p]]
  /\ tickPc' = "degrade"
  /\ evicting' = {}
  /\ shown' = IF evicting = {} THEN shown ELSE << >>
  /\ UNCHANGED <<cached_at, last_viewed_at, files, isRunning, consecutiveFailures,
                 photos, results, displaySel, now, inBody, lastFiringDropped,
                 afterCooling>>
  /\ trail' = NextTrail
  /\ UNCHANGED count

\* evictOldest(count) called on its own, up to the query result
StartEvict ==
  /\ UNCHANGED outsideCache
  /\ tickPc = "idle"
  /\ \E n \in 1..MaxEvictArg :
       /\ count' = n
       /\ evicting' \in OldestCached(n)
  /\ tickPc' = "unlink"
  /\ UNCHANGED <<cached_path, cached_size_bytes, cached_at, last_viewed_at, files, isRunning,
                 consecutiveFailures, photos, results, displaySel, now, inBody,
                 lastFiringDropped, afterCooling, shown>>
  /\ trail' = NextTrail

\* evictOldest called on its own has returned to its caller
EvictReturn ==
  /\ UNCHANGED outsideCache
  /\ tickPc = "degrade"
  /\ tickPc' = "idle"
  /\ UNCHANGED <<cached_path, cached_size_bytes, cached_at, last_viewed_at, files, isRunning,
                 consecutiveFailures, evicting, photos, results, displaySel, now,
                 inBody, lastFiringDropped, afterCooling, shown, count>>
  /\ trail' = NextTrail

\* Step 3: if (this.consecutiveFailures > 3)
Offline(failures) == failures > OfflineThreshold

CheckOffline ==
  /\ UNCHANGED outsideCache
  /\ tickPc = "degrade"
  /\ tickPc' = IF Offline(consecutiveFailures) THEN "sleep" ELSE "query"
  /\ UNCHANGED <<cached_path, cached_size_bytes, cached_at, last_viewed_at, files, isRunning,
                 consecutiveFailures, evicting, photos, results, displaySel, now,
                 inBody, lastFiringDropped, afterCooling, shown>>
  /\ trail' = NextTrail
  /\ UNCHANGED count

\* a wake-up that leaves the counter as it was
FailuresKept == consecutiveFailures

\* the value the counter takes when the sleep of Step 3 is over
FailuresAfterSleep == 0

\* await this.sleep(60000) resolves; consecutiveFailures = 0; return; finally
SleepWake ==
  /\ UNCHANGED outsideCache
  /\ tickPc = "sleep"
  /\ consecutiveFailures' = FailuresAfterSleep
  /\ isRunning' = FALSE
  /\ tickPc' = "idle"
  /\ inBody' = inBody - 1
  /\ afterCooling' = TRUE
  /\ UNCHANGED <<cached_path, cached_size_bytes, cached_at, last_viewed_at, files, evicting,
                 photos, results, displaySel, now, lastFiringDropped, shown>>
  /\ trail' = NextTrail
  /\ UNCHANGED count

\* Step 4: the prefetch query; if (photos.length === 0) return; finally
QueryPhotos ==
  /\ UNCHANGED outsideCache
  /\ tickPc = "query"
  /\ \E S \in PhotosToCache :
       IF S = {}
       THEN /\ isRunning' = FALSE
            /\ tickPc' = "idle"
            /\ inBody' = inBody - 1
            /\ afterCooling' = FALSE
            /\ UNCHANGED <<photos, results>>
       ELSE /\ photos' = S
            /\ results' = [p \in S |-> "pending"]
            /\ tickPc' = "download"
            /\ UNCHANGED <<isRunning, inBody, afterCooling>>
  /\ UNCHANGED <<cached_path, cached_size_bytes, cached_at, last_viewed_at, files,
                 consecutiveFailures, evicting, displaySel, now, lastFiringDropped,
                 shown>>
  /\ trail' = NextTrail
  /\ UNCHANGED count

\* downloadPhoto(p.id): the request fails, or the write to <id>.jpg fails part way,
\* or the file is written and the row updated
DownloadOutcomes == {"ok", "request_failed", "write_failed"}

downloadPhoto(p, outcome) ==
  /\ UNCHANGED outsideCache
  /\ tickPc = "download"
  /\ p \in photos
  /\ results[p] = "pending"
  /\ CASE outcome = "ok" ->
            /\ files' = [files EXCEPT ![p] = "full"]
            /\ cached_path' = [cached_path EXCEPT ![p] = TRUE]
            /\ cached_size_bytes' = [cached_size_bytes EXCEPT ![p] = SizeOf(p)]
            /\ cached_at' = [cached_at EXCEPT ![p] = TRUE]
            /\ results' = [results EXCEPT ![p] = "fulfilled"]
            /\ shown' = << >>
       [] outcome = "request_failed" ->
            /\ results' = [results EXCEPT ![p] = "rejected"]
            /\ UNCHANGED <<files, cached_path, cached_size_bytes, cached_at, shown>>
       [] outcome = "write_failed" ->
            /\ files' = [files EXCEPT ![p] = "partial"]
            /\ results' = [results EXCEPT ![p] = "rejected"]
            /\ UNCHANGED <<cached_path, cached_size_bytes, cached_at, shown>>
  /\ UNCHANGED <<last_viewed_at, isRunning, consecutiveFailures, tickPc, evicting,
                 photos, displaySel, now, inBody, lastFiringDropped, afterCooling>>
  /\ trail' = NextTrail
  /\ UNCHANGED count

DownloadStep == \E p \in Photos, outcome \in DownloadOutcomes : downloadPhoto(p, outcome)

\* Promise.allSettled resolved
AllSettled ==
  /\ UNCHANGED outsideCache
  /\ tickPc = "download"
  /\ \A p \in photos : results[p] # "pending"
  /\ tickPc' = "track"
  /\ UNCHANGED <<cached_path, cached_size_bytes, cached_at, last_viewed_at, files, isRunning,
                 consecutiveFailures, evicting, photos, results, displaySel, now,
                 inBody, lastFiringDropped, afterCooling, shown>>
  /\ trail' = NextTrail
  /\ UNCHANGED count

\* a reset only when no attempt failed
TrackedFailuresAllOk(failures, attempted, before) ==
  IF failures = attempted THEN before + 1 ELSE IF failures = 0 THEN 0 ELSE before

\* Step 5: failure tracking
TrackedFailures(failures, attempted, before) ==
  IF failures = attempted THEN before + 1 ELSE 0

TrackFailures ==
  /\ UNCHANGED outsideCache
  /\ tickPc = "track"
  /\ LET failures == Cardinality({p \in photos : results[p] = "rejected"})
     IN consecutiveFailures' =
          TrackedFailures(failures, Cardinality(photos), consecutiveFailures)
  /\ isRunning' = FALSE
  /\ tickPc' = "idle"
  /\ inBody' = inBody - 1
  /\ afterCooling' = FALSE
  /\ UNCHANGED <<cached_path, cached_size_bytes, cached_at, last_viewed_at, files, evicting,
                 photos, results, displaySel, now, lastFiringDropped, shown>>
  /\ trail' = NextTrail
  /\ UNCHANGED count

\* ------------------------------------------------------------ PhotoDisplay
\* ORDER BY RANDOM() alone
DisplayCandidatesRandom == {p \in Photos : cached_path[p]}

\* SELECT ... WHERE cached_path IS NOT NULL
\* ORDER BY last_viewed_at ASC NULLS FIRST, RANDOM() LIMIT 1
DisplayCandidates ==
  {p \in Cached : \A q \in Cached : last_viewed_at[p] <= last_viewed_at[q]}

\* displayNext up to the query result; if (!photo) return
DisplaySelect ==
  /\ UNCHANGED outsideCache
  /\ displaySel = NULL
  /\ now < MaxClock
  /\ now' = now + 1
  /\ IF DisplayCandidates = {}
     THEN displaySel' = NULL
     ELSE \E p \in DisplayCandidates : displaySel' = p
  /\ UNCHANGED <<cached_path, cached_size_bytes, cached_at, last_viewed_at, files, isRunning,
                 consecutiveFailures, tickPc, evicting, photos, results, inBody,
                 lastFiringDropped, afterCooling, shown>>
  /\ trail' = NextTrail
  /\ UNCHANGED count

\* fs.promises.readFile(path) resolves with whatever bytes the file holds
Readable(p) == files[p] # "none"

\* readFile(photo.cached_path); sendSocketNotification; UPDATE last_viewed_at;
\* a readFile error is caught and logged
DisplayEmit ==
  /\ UNCHANGED outsideCache
  /\ displaySel # NULL
  /\ IF Readable(displaySel)
     THEN /\ shown' = Append(shown, displaySel)
          /\ last_viewed_at' = [last_viewed_at EXCEPT ![displaySel] = now]
     ELSE /\ shown' = << >>
          /\ UNCHANGED last_viewed_at
  /\ displaySel' = NULL
  /\ UNCHANGED <<cached_path, cached_size_bytes, cached_at, files, isRunning,
                 consecutiveFailures, tickPc, evicting, photos, results, now, inBody,
                 lastFiringDropped, afterCooling>>
  /\ trail' = NextTrail
  /\ UNCHANGED count

\* ------------------------------------------- initDatabase and scanForChanges
outsideStore == <<cacheVars, designVars, providerVars, scanVars, syncVars,
  runtimeVars,
  downloadVars,
  rowVars,
  prefetchVars,
  viewVars,
  liveVars>>

\* the page token that follows the last recorded change
HeadToken == Len(changeLog) + 1

\* initDatabase: sqlite.open({ filename: dbPath }) creates the file when it is absent
OpenDatabase ==
  /\ storePc = "open"
  /\ storePc' = "check"
  /\ dbFile' = IF dbFile = "missing" THEN "valid" ELSE dbFile
  /\ rowsAtOpen' = photosTable
  /\ integrity' = "none"
  /\ UNCHANGED <<hasSchema, photosTable, changes_token, remoteFiles, changeLog,
                 pageToken, response, changedPhotos, kills>>
  /\ UNCHANGED outsideStore

\* how Promise.race([db.get('PRAGMA integrity_check'), 5000 ms timeout]) can end
CheckOutcomes == IF dbFile = "corrupt" THEN {"corrupt", "timeout"} ELSE {"ok", "timeout"}

\* if (check?.integrity_check !== 'ok') throw; return db
IntegrityCheck ==
  /\ storePc = "check"
  /\ \E outcome \in CheckOutcomes :
       /\ integrity' = outcome
       /\ storePc' = IF outcome = "ok" THEN "ready" ELSE "caught"
  /\ UNCHANGED <<dbFile, hasSchema, photosTable, changes_token, remoteFiles, changeLog,
                 pageToken, response, changedPhotos, rowsAtOpen, kills>>
  /\ UNCHANGED outsideStore

\* catch: await fs.promises.unlink(dbPath).catch(() => {})
UnlinkDatabase ==
  /\ storePc = "caught"
  /\ dbFile' = "missing"
  /\ hasSchema' = FALSE
  /\ photosTable' = {}
  /\ changes_token' = NULL
  /\ storePc' = "reopen"
  /\ UNCHANGED <<remoteFiles, changeLog, pageToken, response, changedPhotos,
                 integrity, rowsAtOpen, kills>>
  /\ UNCHANGED outsideStore

\* catch: const db = await sqlite.open(...)
ReopenDatabase ==
  /\ storePc = "reopen"
  /\ dbFile' = "valid"
  /\ storePc' = "schema"
  /\ UNCHANGED <<hasSchema, photosTable, changes_token, remoteFiles, changeLog,
                 pageToken, response, changedPhotos, integrity, rowsAtOpen, kills>>
  /\ UNCHANGED outsideStore

\* catch: await createSchema(db); return db
createSchema ==
  /\ storePc = "schema"
  /\ hasSchema' = TRUE
  /\ storePc' = "ready"
  /\ UNCHANGED <<dbFile, photosTable, changes_token, remoteFiles, changeLog,
                 pageToken, response, changedPhotos, integrity, rowsAtOpen, kills>>
  /\ UNCHANGED outsideStore

\* scanForChanges: const token = await this.db.getSetting('changes_token');
\* the query fails when the settings table does not exist
GetToken ==
  /\ storePc \in {"ready", "idle"}
  /\ IF ~hasSchema
     THEN /\ storePc' = "failed"
          /\ UNCHANGED <<pageToken, changedPhotos>>
     ELSE IF changes_token = NULL
          THEN /\ storePc' = "startToken"
               /\ UNCHANGED <<pageToken, changedPhotos>>
          ELSE /\ pageToken' = changes_token
               /\ changedPhotos' = {}
               /\ storePc' = "list"
  /\ UNCHANGED <<dbFile, hasSchema, photosTable, changes_token, remoteFiles, changeLog,
                 response, integrity, rowsAtOpen, kills>>
  /\ UNCHANGED outsideStore

\* first run: getStartPageToken(); saveSetting('changes_token', startPageToken)
SaveStartToken ==
  /\ storePc = "startToken"
  /\ changes_token' = HeadToken
  /\ storePc' = "fullScan"
  /\ UNCHANGED <<dbFile, hasSchema, photosTable, remoteFiles, changeLog, pageToken,
                 response, changedPhotos, integrity, rowsAtOpen, kills>>
  /\ UNCHANGED outsideStore

\* first run: return await this.fullScan(); a failed request throws to the caller
fullScan ==
  /\ storePc = "fullScan"
  /\ \/ /\ changedPhotos' = remoteFiles
        /\ storePc' = "returned"
     \/ /\ storePc' = "idle"
        /\ UNCHANGED changedPhotos
  /\ UNCHANGED <<dbFile, hasSchema, photosTable, changes_token, remoteFiles, changeLog,
                 pageToken, response, integrity, rowsAtOpen, kills>>
  /\ UNCHANGED outsideStore

\* no page is held
NoResponse == [changes |-> << >>, nextPageToken |-> NULL, newStartPageToken |-> NULL]

\* the page drive.changes.list({ pageToken }) answers with
ChangesPage(token) ==
  LET last == Min(token + PageSize - 1, Len(changeLog))
  IN [changes |-> SubSeq(changeLog, token, last),
      nextPageToken |-> IF last < Len(changeLog) THEN last + 1 ELSE NULL,
      newStartPageToken |-> IF last < Len(changeLog) THEN NULL ELSE HeadToken]

\* const response = await this.drive.changes.list(...); a failed request throws
ChangesList ==
  /\ storePc = "list"
  /\ \/ /\ response' = ChangesPage(pageToken)
        /\ storePc' = "apply"
        /\ UNCHANGED <<pageToken, changedPhotos>>
     \/ /\ response' = NoResponse
        /\ pageToken' = NULL
        /\ changedPhotos' = {}
        /\ storePc' = "idle"
  /\ UNCHANGED <<dbFile, hasSchema, photosTable, changes_token, remoteFiles, changeLog,
                 integrity, rowsAtOpen, kills>>
  /\ UNCHANGED outsideStore

\* for (const change of response.data.changes): deletePhoto or changedPhotos.push;
\* pageToken = response.data.nextPageToken
ApplyChanges ==
  /\ storePc = "apply"
  /\ LET cs == {response.changes[i] : i \in DOMAIN response.changes}
         removed == {c.fileId : c \in {d \in cs : d.removed}}
         images == {c.fileId : c \in {d \in cs : ~d.removed}}
     IN /\ photosTable' = photosTable \ removed
        /\ changedPhotos' = changedPhotos \cup images
  /\ pageToken' = response.nextPageToken
  /\ storePc' = IF response.newStartPageToken # NULL THEN "saveToken"
                ELSE IF response.nextPageToken # NULL THEN "list" ELSE "returned"
  /\ UNCHANGED <<dbFile, hasSchema, changes_token, remoteFiles, changeLog, response,
                 integrity, rowsAtOpen, kills>>
  /\ UNCHANGED outsideStore

\* the token scanForChanges stores at the end of a page
TokenToSave == response.newStartPageToken

\* if (response.data.newStartPageToken) saveSetting('changes_token', ...); while (pageToken)
SaveToken ==
  /\ storePc = "saveToken"
  /\ changes_token' = TokenToSave
  /\ response' = NoResponse
  /\ storePc' = IF pageToken # NULL THEN "list" ELSE "returned"
  /\ UNCHANGED <<dbFile, hasSchema, photosTable, remoteFiles, changeLog, pageToken,
                 changedPhotos, integrity, rowsAtOpen, kills>>
  /\ UNCHANGED outsideStore

\* the caller: PhotoDatabase.savePhotos(photos returned by scanForChanges)
savePhotos ==
  /\ storePc = "returned"
  /\ photosTable' = photosTable \cup changedPhotos
  /\ changedPhotos' = {}
  /\ storePc' = "idle"
  /\ UNCHANGED <<dbFile, hasSchema, changes_token, remoteFiles, changeLog, pageToken,
                 response, integrity, rowsAtOpen, kills>>
  /\ UNCHANGED outsideStore

\* the process is killed and started again: what is in the file stays, the rest is lost
KillAndRestart ==
  /\ storePc # "open"
  /\ kills < MaxKills
  /\ kills' = kills + 1
  /\ storePc' = "open"
  /\ pageToken' = NULL
  /\ response' = NoResponse
  /\ changedPhotos' = {}
  /\ UNCHANGED <<dbFile, hasSchema, photosTable, changes_token, remoteFiles, changeLog,
                 integrity, rowsAtOpen>>
  /\ UNCHANGED outsideStore

\* a user adds an image to a monitored folder (each file changes once in a run)
RemoteAdd ==
  /\ Len(changeLog) < MaxLog
  /\ \E p \in Photos \ remoteFiles :
       /\ \A i \in DOMAIN changeLog : changeLog[i].fileId # p
       /\ remoteFiles' = remoteFiles \cup {p}
       /\ changeLog' = Append(changeLog, [fileId |-> p, removed |-> FALSE])
  /\ UNCHANGED <<dbFile, hasSchema, photosTable, changes_token, storePc, pageToken,
                 response, changedPhotos, integrity, rowsAtOpen, kills>>
  /\ UNCHANGED outsideStore

\* a user removes or trashes an image
RemoteRemove ==
  /\ Len(changeLog) < MaxLog
  /\ \E p \in remoteFiles :
       /\ \A i \in DOMAIN changeLog : changeLog[i].fileId # p
       /\ remoteFiles' = remoteFiles \ {p}
       /\ changeLog' = Append(changeLog, [fileId |-> p, removed |-> TRUE])
  /\ UNCHANGED <<dbFile, hasSchema, photosTable, changes_token, storePc, pageToken,
                 response, changedPhotos, integrity, rowsAtOpen, kills>>
  /\ UNCHANGED outsideStore

\* -------------------------- CacheManager and PhotoDisplay of TECH_DESIGN.md
outsideDesign == <<cacheVars, storeVars, providerVars, scanVars, syncVars,
  runtimeVars,
  downloadVars,
  rowVars,
  prefetchVars,
  viewVars,
  liveVars>>

CriticalLow == 10           \* if (photosAhead < 10) return 10
prefetchAheadCount == 50
batchDownloadSize == 5
EvictLimit == 20            \* LIMIT 20 of evictOldPhotos
EvictAge == 1               \* 10 * 60 * 1000 ms, in units of updateInterval

\* getCacheState: COUNT(*), COALESCE(SUM(cached_size_bytes), 0) WHERE cached_path IS NOT NULL
getCacheState ==
  LET cachedRows == {p \in Photos : cachedPath[p]}
  IN [cachedCount |-> Cardinality(cachedRows),
      totalBytes |-> SumOver([p \in Photos |-> SizeOf(p)], cachedRows)]

\* calculateOptimalBatchSize; slow: avgDownloadTime > cacheTickInterval * 0.8
calculateOptimalBatchSize(cachedCount, slow) ==
  IF cachedCount < CriticalLow THEN CriticalLow
  ELSE IF cachedCount > prefetchAheadCount THEN 0
  ELSE IF slow THEN (IF batchDownloadSize \div 2 > 1 THEN batchDownloadSize \div 2 ELSE 1)
  ELSE batchDownloadSize

\* cacheTick up to its first await
cacheTick ==
  /\ ~isTickRunning
  /\ isTickRunning' = TRUE
  /\ cachePc' = "state"
  /\ tombstonedAtTick' = {p \in Photos : is_deleted[p] /\ cachedPath[p]}
  /\ UNCHANGED <<rowsAtSelect, sent>>
  /\ UNCHANGED <<is_deleted, cachedPath, lastViewedAt, finalFile, tempFile, downloadPc,
                 photo, clock, staleAtSelect, emittedDeleted>>
  /\ UNCHANGED outsideDesign
  /\ UNCHANGED failedWith

\* Steps 1 and 2: if (cacheState.totalBytes > maxCacheSizeMB * 1024 * 1024)
CheckCacheState ==
  /\ cachePc = "state"
  /\ cachePc' = IF getCacheState.totalBytes > MaxCacheBytes THEN "evict" ELSE "query"
  /\ UNCHANGED <<is_deleted, cachedPath, lastViewedAt, finalFile, tempFile, isTickRunning,
                 downloadPc, photo, clock, staleAtSelect, emittedDeleted>>
  /\ UNCHANGED <<tombstonedAtTick, rowsAtSelect, sent>>
  /\ UNCHANGED outsideDesign
  /\ UNCHANGED failedWith

\* SELECT ... WHERE cached_path IS NOT NULL AND last_viewed_at < now - 10 min
\* ORDER BY last_viewed_at ASC LIMIT 20   (a NULL last_viewed_at never compares less)
photosToEvict ==
  LET old == {p \in Photos : /\ cachedPath[p]
                             /\ lastViewedAt[p] # NULL
                             /\ lastViewedAt[p] < clock - EvictAge}
  IN {S \in SUBSET old :
        /\ Cardinality(S) = Min(EvictLimit, Cardinality(old))
        /\ \A a \in S, b \in old \ S : lastViewedAt[a] <= lastViewedAt[b]}

\* evictOldPhotos: unlink every file, then clear the rows in one transaction
evictOldPhotos ==
  /\ cachePc = "evict"
  /\ \E S \in photosToEvict :
       /\ finalFile' = [p \in Photos |-> IF p \in S THEN FALSE ELSE finalFile[p]]
       /\ cachedPath' = [p \in Photos |-> IF p \in S THEN FALSE ELSE cachedPath[p]]
  /\ cachePc' = "query"
  /\ UNCHANGED <<is_deleted, lastViewedAt, tempFile, isTickRunning, downloadPc, photo,
                 clock, staleAtSelect, emittedDeleted>>
  /\ UNCHANGED <<tombstonedAtTick, rowsAtSelect, sent>>
  /\ UNCHANGED outsideDesign
  /\ UNCHANGED failedWith

\* SELECT id FROM photos WHERE cached_path IS NULL AND is_deleted = 0
\* ORDER BY last_viewed_at ASC NULLS FIRST, discovered_at ASC LIMIT batchSize
photosToDownload(batchSize) ==
  LET wanted == {p \in Photos : ~cachedPath[p] /\ ~is_deleted[p]}
  IN {S \in SUBSET wanted :
        /\ Cardinality(S) = Min(batchSize, Cardinality(wanted))
        /\ \A a \in S, b \in wanted \ S : lastViewedAt[a] <= lastViewedAt[b]}

\* Steps 3 and 4; with nothing to download the tick ends (finally)
QueryBatch ==
  /\ cachePc = "query"
  /\ \E slow \in BOOLEAN :
     \E S \in photosToDownload(calculateOptimalBatchSize(getCacheState.cachedCount, slow)) :
       IF S = {}
       THEN /\ cachePc' = "idle"
            /\ isTickRunning' = FALSE
            /\ UNCHANGED downloadPc
       ELSE /\ cachePc' = "download"
            /\ downloadPc' = [p \in Photos |-> IF p \in S THEN "request" ELSE "none"]
            /\ UNCHANGED isTickRunning
  /\ UNCHANGED <<is_deleted, cachedPath, lastViewedAt, finalFile, tempFile, photo, clock,
                 staleAtSelect, emittedDeleted>>
  /\ UNCHANGED <<tombstonedAtTick, rowsAtSelect, sent>>
  /\ UNCHANGED outsideDesign
  /\ UNCHANGED failedWith

\* drive.files.get answers, or its third attempt failed: the network or a 5xx, or
\* 404 for a file that is gone
RequestOutcomes == {"ok", "network", "notfound"}

\* downloadWithRetry: a response, or the third attempt failed
downloadWithRetry ==
  /\ cachePc = "download"
  /\ \E p \in Photos, outcome \in RequestOutcomes :
       /\ downloadPc[p] = "request"
       /\ downloadPc' = [downloadPc EXCEPT ![p] = IF outcome = "ok" THEN "stream" ELSE "catch"]
       /\ failedWith' = [failedWith EXCEPT ![p] = IF outcome = "ok" THEN "none" ELSE outcome]
  /\ UNCHANGED <<is_deleted, cachedPath, lastViewedAt, finalFile, tempFile, isTickRunning,
                 cachePc, photo, clock, staleAtSelect, emittedDeleted>>
  /\ UNCHANGED <<tombstonedAtTick, rowsAtSelect, sent>>
  /\ UNCHANGED outsideDesign

\* the stream finishes, breaks or times out, or exceeds maxSizeMB
StreamOutcomes == {"ok", "network", "too_large"}

\* streamDownload(response, tempPath): the temp file is created; the stream
\* finishes, or fails, times out or is too large
streamDownload ==
  /\ cachePc = "download"
  /\ \E p \in Photos, outcome \in StreamOutcomes :
       /\ downloadPc[p] = "stream"
       /\ tempFile' = [tempFile EXCEPT ![p] = TRUE]
       /\ downloadPc' = [downloadPc EXCEPT ![p] = IF outcome = "ok" THEN "process" ELSE "catch"]
       /\ failedWith' = [failedWith EXCEPT ![p] = IF outcome = "ok" THEN "none" ELSE outcome]
  /\ UNCHANGED <<is_deleted, cachedPath, lastViewedAt, finalFile, isTickRunning, cachePc,
                 photo, clock, staleAtSelect, emittedDeleted>>
  /\ UNCHANGED <<tombstonedAtTick, rowsAtSelect, sent>>
  /\ UNCHANGED outsideDesign

\* sharp metadata and isValidImage, sharp(...).toFile(finalPath), stat(finalPath)
ProcessOutcomes == {"ok", "invalid", "resize_failed", "too_small"}

ProcessImage ==
  /\ cachePc = "download"
  /\ \E p \in Photos, outcome \in ProcessOutcomes :
       /\ downloadPc[p] = "process"
       /\ finalFile' = [finalFile EXCEPT ![p] = (outcome # "invalid")]
       /\ downloadPc' = [downloadPc EXCEPT ![p] = IF outcome = "ok" THEN "commit" ELSE "catch"]
       /\ failedWith' = [failedWith EXCEPT ![p] = IF outcome = "ok" THEN "none" ELSE outcome]
  /\ UNCHANGED <<is_deleted, cachedPath, lastViewedAt, tempFile, isTickRunning, cachePc,
                 photo, clock, staleAtSelect, emittedDeleted>>
  /\ UNCHANGED <<tombstonedAtTick, rowsAtSelect, sent>>
  /\ UNCHANGED outsideDesign

\* unlink(tempPath); db.updatePhoto(photoId, { cached_path: finalPath, ... })
CommitDownload ==
  /\ cachePc = "download"
  /\ \E p \in Photos :
       /\ downloadPc[p] = "commit"
       /\ tempFile' = [tempFile EXCEPT ![p] = FALSE]
       /\ cachedPath' = [cachedPath EXCEPT ![p] = TRUE]
       /\ downloadPc' = [downloadPc EXCEPT ![p] = "done"]
  /\ UNCHANGED <<is_deleted, lastViewedAt, finalFile, isTickRunning, cachePc, photo,
                 clock, staleAtSelect, emittedDeleted>>
  /\ UNCHANGED <<tombstonedAtTick, rowsAtSelect, sent>>
  /\ UNCHANGED outsideDesign
  /\ UNCHANGED failedWith

\* catch: cleanupFailedDownload(tempPath, finalPath);
\* db.updatePhoto(photoId, { is_deleted: 1, cached_path: null })
cleanupFailedDownload ==
  /\ cachePc = "download"
  /\ \E p \in Photos :
       /\ downloadPc[p] = "catch"
       /\ tempFile' = [tempFile EXCEPT ![p] = FALSE]
       /\ finalFile' = [finalFile EXCEPT ![p] = FALSE]
       /\ is_deleted' = [is_deleted EXCEPT ![p] = TRUE]
       /\ cachedPath' = [cachedPath EXCEPT ![p] = FALSE]
       /\ downloadPc' = [downloadPc EXCEPT ![p] = "done"]
  /\ UNCHANGED <<lastViewedAt, isTickRunning, cachePc, photo, clock, staleAtSelect,
                 emittedDeleted>>
  /\ UNCHANGED <<tombstonedAtTick, rowsAtSelect, sent>>
  /\ UNCHANGED outsideDesign
  /\ UNCHANGED failedWith

\* batchDownloadPhotos: Promise.allSettled resolved; updateMetrics; finally
batchDownloadPhotos ==
  /\ cachePc = "download"
  /\ \A p \in Photos : downloadPc[p] \in {"none", "done"}
  /\ downloadPc' = [p \in Photos |-> "none"]
  /\ cachePc' = "idle"
  /\ isTickRunning' = FALSE
  /\ UNCHANGED <<is_deleted, cachedPath, lastViewedAt, finalFile, tempFile, photo, clock,
                 staleAtSelect, emittedDeleted>>
  /\ UNCHANGED <<tombstonedAtTick, rowsAtSelect, sent>>
  /\ UNCHANGED outsideDesign
  /\ UNCHANGED failedWith

\* scanForChanges: if (change.removed || change.file.trashed) db.markPhotoDeleted(fileId)
markPhotoDeleted ==
  /\ \E p \in Photos :
       /\ ~is_deleted[p]
       /\ is_deleted' = [is_deleted EXCEPT ![p] = TRUE]
  /\ UNCHANGED <<cachedPath, lastViewedAt, finalFile, tempFile, isTickRunning, cachePc,
                 downloadPc, photo, clock, staleAtSelect, emittedDeleted>>
  /\ UNCHANGED <<tombstonedAtTick, rowsAtSelect, sent>>
  /\ UNCHANGED outsideDesign
  /\ UNCHANGED failedWith

\* a display query without the tombstone filter
DisplayRowsAll == {p \in Photos : cachedPath[p]}

\* WHERE cached_path IS NOT NULL AND is_deleted = 0
DisplayRows == {p \in Photos : cachedPath[p] /\ ~is_deleted[p]}

NextPhotosRandom == DisplayRows

\* ... ORDER BY last_viewed_at ASC NULLS FIRST, RANDOM() LIMIT 1
NextPhotos == {p \in DisplayRows : \A q \in DisplayRows : lastViewedAt[p] <= lastViewedAt[q]}

\* displayNextPhoto up to the query result; if (!photo) return
SelectPhoto ==
  /\ photo = NULL
  /\ clock < MaxDisplayTicks
  /\ clock' = clock + 1
  /\ IF NextPhotos = {}
     THEN photo' = NULL
     ELSE \E p \in NextPhotos : photo' = p
  /\ staleAtSelect' = {p \in Photos : is_deleted[p] /\ cachedPath[p] /\ finalFile[p]}
  /\ UNCHANGED <<is_deleted, cachedPath, finalFile, tempFile, lastViewedAt, isTickRunning,
                 cachePc, downloadPc, emittedDeleted>>
  /\ rowsAtSelect' = DisplayRows
  /\ UNCHANGED <<tombstonedAtTick, sent>>
  /\ UNCHANGED outsideDesign
  /\ UNCHANGED failedWith

\* checkIfCycleComplete, asked with the view just recorded:
\* no row with is_deleted = 0 AND (last_viewed_at IS NULL OR < now - updateInterval * 0.5)
checkIfCycleComplete(viewed) ==
  \A p \in Photos : is_deleted[p] \/ (viewed[p] # NULL /\ viewed[p] >= clock)

\* db.resetViewTimestamps()
resetViewTimestamps == [p \in Photos |-> NULL]

\* readFile; DISPLAY_PHOTO; updatePhoto(last_viewed_at); reshuffle when the cycle
\* is complete; a readFile error is caught and logged
SendPhoto ==
  /\ photo # NULL
  /\ IF finalFile[photo]
     THEN /\ emittedDeleted' = IF photo \in staleAtSelect
                               THEN emittedDeleted \cup {photo} ELSE emittedDeleted
          /\ LET viewed == [lastViewedAt EXCEPT ![photo] = clock]
             IN lastViewedAt' = IF checkIfCycleComplete(viewed)
                                THEN resetViewTimestamps ELSE viewed
     ELSE UNCHANGED <<emittedDeleted, lastViewedAt>>
  /\ photo' = NULL
  /\ UNCHANGED <<is_deleted, cachedPath, finalFile, tempFile, isTickRunning, cachePc,
                 downloadPc, clock, staleAtSelect>>
  /\ sent' = IF finalFile[photo] THEN Append(sent, [id |-> photo, rows |-> rowsAtSelect])
              ELSE sent
  /\ UNCHANGED <<tombstonedAtTick, rowsAtSelect>>
  /\ UNCHANGED outsideDesign
  /\ UNCHANGED failedWith

\* ------------------------------------------------------- OneDriveProvider
outsideProvider == <<cacheVars, storeVars, designVars, scanVars, syncVars,
  runtimeVars,
  downloadVars,
  rowVars,
  prefetchVars,
  viewVars,
  liveVars>>

\* what a request to the Graph API or to the token endpoint can end in
NetworkError == "network"         \* ECONNRESET, ETIMEDOUT, ENOTFOUND, EAI_AGAIN
ServerError == "server"           \* 500 <= status < 600
RateLimited == "rate"             \* status 429
ErrorClasses == {NetworkError, ServerError, RateLimited,
                 "unauthorized", "forbidden", "notfound", "other"}

\* a token check that refreshes only a token that has already expired
TokenDueExpired == time >= tokenExpiry

\* if (Date.now() >= this.tokenExpiry - 300000)
TokenDue == time >= tokenExpiry - RefreshMargin

RECURSIVE Pow2(_)
Pow2(n) == IF n = 0 THEN 1 ELSE 2 * Pow2(n - 1)

\* a backoff that does not grow
DelayFlat(n) == 1000

\* const delay = Math.min(1000 * Math.pow(2, attempt), 60000)
Delay(n) == Min(1000 * Pow2(n), 60000)

\* a retry decision that does not look at the error
shouldRetryAny(err, n) == n < maxRetries

\* shouldRetry = (isNetworkError || isServerError || isRateLimited) && attempt < maxRetries
shouldRetry(err, n) ==
  /\ err \in {NetworkError, ServerError, RateLimited}
  /\ n < maxRetries

\* what every operation records when it starts
Begin ==
  /\ attempt' = 0
  /\ error' = "none"
  /\ requests' = 0
  /\ waits' = << >>
  /\ sentToken' = NULL
  /\ startToken' = accessToken
  /\ startTime' = time
  /\ startExpiry' = tokenExpiry
  /\ probe' = "none"
  /\ UNCHANGED <<accessToken, tokenExpiry, time, tokenFile>>

\* initialize: the token file has been read; the expiry check comes next
initialize ==
  /\ opPc = "idle"
  /\ op' = "initialize"
  /\ opPc' = "load"
  /\ Begin
  /\ UNCHANGED outsideProvider

\* makeRequest called by scanFolder, getChanges, getStartPageToken or isDescendantOf
makeRequest ==
  /\ opPc = "idle"
  /\ op' = "makeRequest"
  /\ opPc' = "online"
  /\ Begin
  /\ UNCHANGED outsideProvider

\* downloadPhoto: no isOnline probe, the expiry check comes first
StartDownloadPhoto ==
  /\ opPc = "idle"
  /\ op' = "downloadPhoto"
  /\ opPc' = "token"
  /\ Begin
  /\ UNCHANGED outsideProvider

\* how dns.resolve("microsoft.com") can end: an address list, or a rejection
DnsOutcomes == {"resolved", "ENOTFOUND", "ETIMEOUT", "ECONNREFUSED"}

\* a probe that answers true whatever the resolution did
ReachableAlways(outcome) == TRUE

\* isOnline: try { await dns.resolve(...); return true } catch { return false }
Reachable(outcome) == outcome = "resolved"

\* if (!(await this.isOnline())) throw new Error("Device is offline")
isOnline ==
  /\ opPc = "online"
  /\ \E outcome \in DnsOutcomes :
       /\ probe' = outcome
       /\ IF Reachable(outcome)
          THEN opPc' = "token" /\ UNCHANGED error
          ELSE opPc' = "thrown" /\ error' = "offline"
  /\ UNCHANGED <<accessToken, tokenExpiry, time, op, attempt, requests, waits,
                 sentToken, startToken, startTime, startExpiry, tokenFile>>
  /\ UNCHANGED outsideProvider

\* the expiry check of initialize, makeRequest and downloadPhoto
CheckExpiry ==
  /\ opPc \in {"load", "token"}
  /\ opPc' = IF opPc = "load"
             THEN (IF TokenDue THEN "loadRefresh" ELSE "online")
             ELSE (IF TokenDue THEN "refresh" ELSE "send")
  /\ UNCHANGED <<accessToken, tokenExpiry, time, op, attempt, error, requests, waits,
                 sentToken, startToken, startTime, startExpiry, tokenFile>>
  /\ UNCHANGED outsideProvider
  /\ UNCHANGED probe

\* refreshAccessToken: POST to the token endpoint and the three assignments; a
\* failure is rethrown
refreshAccessToken ==
  /\ opPc \in {"loadRefresh", "refresh"}
  /\ \/ /\ accessToken < MaxRefresh + 1
        /\ \E expires_in \in 1..MaxExpiresIn :
             tokenExpiry' = time + expires_in
        /\ accessToken' = accessToken + 1
        /\ opPc' = IF opPc = "loadRefresh" THEN "loadWrite" ELSE "write"
        /\ UNCHANGED error
     \/ /\ opPc' = "thrown"
        /\ error' = "refresh"
        /\ UNCHANGED <<accessToken, tokenExpiry>>
  /\ UNCHANGED <<time, op, attempt, requests, waits, sentToken, startToken,
                 startTime, startExpiry, tokenFile>>
  /\ UNCHANGED outsideProvider
  /\ UNCHANGED probe

\* the token set JSON.stringify writes
TokenSet(token) == [content |-> "complete", access_token |-> token]

\* fs.promises.writeFile opens the file with flag 'w', which truncates it
FileOpened == [content |-> "empty", access_token |-> NULL]

\* what a write that stopped early leaves in the truncated file
FileCutShort == {FileOpened, [content |-> "partial", access_token |-> NULL]}

\* refreshAccessToken: fs.promises.writeFile(tokenFilePath, ...), the open
OpenTokenFile ==
  /\ opPc \in {"loadWrite", "write"}
  /\ \/ /\ tokenFile' = FileOpened
        /\ opPc' = IF opPc = "loadWrite" THEN "loadWriting" ELSE "writing"
        /\ UNCHANGED error
     \/ /\ opPc' = "thrown"
        /\ error' = "refresh"
        /\ UNCHANGED tokenFile
  /\ UNCHANGED <<accessToken, tokenExpiry, time, op, attempt, requests, waits,
                 sentToken, startToken, startTime, startExpiry>>
  /\ UNCHANGED outsideProvider
  /\ UNCHANGED probe

\* refreshAccessToken: fs.promises.writeFile(tokenFilePath, ...), the write and
\* close; a failure is rethrown
WriteTokenFile ==
  /\ opPc \in {"loadWriting", "writing"}
  /\ \/ /\ tokenFile' = TokenSet(accessToken)
        /\ opPc' = IF opPc = "loadWriting" THEN "online" ELSE "send"
        /\ UNCHANGED error
     \/ /\ tokenFile' \in FileCutShort
        /\ opPc' = "thrown"
        /\ error' = "refresh"
  /\ UNCHANGED <<accessToken, tokenExpiry, time, op, attempt, requests, waits,
                 sentToken, startToken, startTime, startExpiry>>
  /\ UNCHANGED outsideProvider
  /\ UNCHANGED probe

\* the process is killed while refreshAccessToken saves the token
Crash ==
  /\ opPc \in {"loadWrite", "write", "loadWriting", "writing"}
  /\ opPc' = "crashed"
  /\ IF opPc \in {"loadWriting", "writing"}
     THEN tokenFile' \in FileCutShort
     ELSE UNCHANGED tokenFile
  /\ UNCHANGED <<accessToken, tokenExpiry, time, op, attempt, error, requests, waits,
                 sentToken, startToken, startTime, startExpiry>>
  /\ UNCHANGED outsideProvider
  /\ UNCHANGED probe

\* await axios({...}) of makeRequest and of downloadPhoto, with the catch that follows
Send ==
  /\ opPc = "send"
  /\ requests' = requests + 1
  /\ sentToken' = accessToken
  /\ \/ /\ opPc' = "returned"
        /\ UNCHANGED <<attempt, error, waits>>
     \/ \E err \in ErrorClasses :
          /\ error' = err
          /\ IF op = "downloadPhoto"
             THEN /\ opPc' = "thrown"
                  /\ UNCHANGED <<attempt, waits>>
             ELSE /\ attempt' = attempt + 1
                  /\ IF shouldRetry(err, attempt + 1)
                     THEN /\ opPc' = "sleep"
                          /\ waits' = Append(waits, Delay(attempt + 1))
                     ELSE /\ opPc' = "thrown"
                          /\ UNCHANGED waits
  /\ UNCHANGED <<accessToken, tokenExpiry, time, op, startToken, startTime, startExpiry, tokenFile>>
  /\ UNCHANGED outsideProvider
  /\ UNCHANGED probe

\* await new Promise(resolve => setTimeout(resolve, delay)); the loop sends again
Backoff ==
  /\ opPc = "sleep"
  /\ opPc' = "send"
  /\ UNCHANGED <<accessToken, tokenExpiry, time, op, attempt, error, requests, waits,
                 sentToken, startToken, startTime, startExpiry, tokenFile>>
  /\ UNCHANGED outsideProvider
  /\ UNCHANGED probe

\* the caller has the result or the error
Settle ==
  /\ opPc \in {"returned", "thrown"}
  /\ opPc' = "idle"
  /\ UNCHANGED <<accessToken, tokenExpiry, time, op, attempt, error, requests, waits,
                 sentToken, startToken, startTime, startExpiry, tokenFile>>
  /\ UNCHANGED outsideProvider
  /\ UNCHANGED probe

\* five minutes pass
Elapse ==
  /\ time < MaxTime
  /\ time' = time + 1
  /\ UNCHANGED <<accessToken, tokenExpiry, op, opPc, attempt, error, requests, waits,
                 sentToken, startToken, startTime, startExpiry, tokenFile>>
  /\ UNCHANGED outsideProvider
  /\ UNCHANGED probe

\* ------------------------------------------ OneDriveProvider: folder scans
outsideScan == <<cacheVars, storeVars, designVars, providerVars, syncVars,
  runtimeVars,
  downloadVars,
  rowVars,
  prefetchVars,
  viewVars,
  liveVars>>

RootFolder == 1
SmallFolders == 1..NumFolders
DeepFolders == (NumFolders + 1)..(NumFolders + ChainLen)
Folders == SmallFolders \cup DeepFolders

\* folderConfig.depth: -1 = infinite, 0 = folder only
Depths == {-1, 0, 1}

\* folderConfig.id: a folder, or null for the drive root
SpecIds == (SmallFolders \ {RootFolder}) \cup {NULL}

\* item.parentReference.id of every folder; the root has none
ParentMap(sp, deep) ==
  [f \in Folders |->
     IF f = RootFolder THEN NULL
     ELSE IF f \in SmallFolders THEN sp[f]
     ELSE IF deep THEN f - 1 ELSE NULL]

\* the folder items of each /children listing: the folders that name g as their
\* parent, and those a second path leads to
ChildMap(pm, extra) ==
  [g \in Folders |-> {f \in Folders : pm[f] = g} \cup {e[2] : e \in {x \in extra : x[1] = g}}]

\* every folder f holds one image, whose id is f
ImageIn(f) == f

\* data.value of GET /me/drive/items/<id>/children, or of /me/drive/root/children
Items(folderId) ==
  LET f == IF folderId = NULL THEN RootFolder ELSE folderId
  IN {[kind |-> "image", id |-> ImageIn(f)]}
       \cup {[kind |-> "folder", id |-> c] : c \in children[f]}

\* for (const item of data.value): the listing is taken to return the image
\* first and the folders by ascending id
NextItem(todo) ==
  IF \E i \in todo : i.kind = "image"
  THEN CHOOSE i \in todo : i.kind = "image"
  ELSE CHOOSE i \in todo : \A j \in todo : i.id <= j.id

\* a scan that does not remember the folders it has entered
VisitedNever(folderId) == FALSE

\* if (folderId && visitedFolders.has(folderId)) return photos
Visited(folderId) == folderId # NULL /\ folderId \in visitedFolders

\* a scan that descends one level further than maxDepth
DescendBeyond(maxDepth, currentDepth) == maxDepth = -1 \/ currentDepth <= maxDepth

\* if (item.folder && (maxDepth === -1 || currentDepth < maxDepth))
Descend(maxDepth, currentDepth) == maxDepth = -1 \/ currentDepth < maxDepth

\* a Map whose set() leaves an existing key alone
PutFirst(map, ph) ==
  IF \E i \in DOMAIN map : map[i].id = ph.id THEN map ELSE Append(map, ph)

\* Map.prototype.set: a new key goes last, an existing key keeps its place and
\* takes the new value
Put(map, ph) ==
  IF \E i \in DOMAIN map : map[i].id = ph.id
  THEN [i \in DOMAIN map |-> IF map[i].id = ph.id THEN ph ELSE map[i]]
  ELSE Append(map, ph)

\* Array.from(new Map(allPhotos.map(photo => [photo.id, photo])).values())
RECURSIVE MapValues(_, _)
MapValues(map, entries) ==
  IF entries = << >> THEN map
  ELSE MapValues(Put(map, Head(entries)), Tail(entries))

\* OneDriveProvider.fullScan up to its loop
StartFullScan ==
  /\ scanPc = "idle"
  /\ memPc = "idle"
  /\ scanPc' = "loop"
  /\ allPhotos' = << >>
  /\ specsDone' = 0
  /\ UNCHANGED <<children, parentOf, edition, folderConfig, stack, visitedFolders,
                 photosOut, uniquePhotos, listed>>
  /\ UNCHANGED walkVars
  /\ UNCHANGED outsideScan

\* for (const folderConfig of folders): this.scanFolder(folderId, depth), up to the
\* first listing of the outermost call
NextFolderConfig ==
  /\ scanPc = "loop"
  /\ specsDone < MaxFolderSpecs
  /\ \E id \in SpecIds, d \in Depths :
       /\ folderConfig' = [id |-> id, depth |-> d]
       /\ visitedFolders' = IF id = NULL THEN {} ELSE {id}
       /\ listed' = <<IF id = NULL THEN RootFolder ELSE id>>
       /\ stack' = <<[folderId |-> id, currentDepth |-> 0, todo |-> Items(id)]>>
  /\ photosOut' = << >>
  /\ scanPc' = "scan"
  /\ UNCHANGED <<children, parentOf, edition, specsDone, allPhotos, uniquePhotos>>
  /\ UNCHANGED walkVars
  /\ UNCHANGED outsideScan

\* one pass of for (const item of data.value): an image is pushed; a folder is
\* entered when the depth allows it and it was not entered before
ScanItem ==
  /\ scanPc = "scan"
  /\ stack # << >>
  /\ Len(stack) <= Cardinality(Folders)
  /\ stack[Len(stack)].todo # {}
  /\ LET top == Len(stack)
         frame == stack[top]
         entry == NextItem(frame.todo)
         rest == [stack EXCEPT ![top].todo = @ \ {entry}]
     IN    IF entry.kind = "image"
             THEN /\ photosOut' = Append(photosOut, [id |-> entry.id,
                                                     parents |-> frame.folderId,
                                                     name |-> edition])
                  /\ stack' = rest
                  /\ UNCHANGED <<visitedFolders, listed>>
             ELSE IF Descend(folderConfig.depth, frame.currentDepth) /\ ~Visited(entry.id)
             THEN /\ visitedFolders' = visitedFolders \cup {entry.id}
                  /\ listed' = Append(listed, entry.id)
                  /\ stack' = Append(rest, [folderId |-> entry.id,
                                            currentDepth |-> frame.currentDepth + 1,
                                            todo |-> Items(entry.id)])
                  /\ UNCHANGED photosOut
             ELSE /\ stack' = rest
                  /\ UNCHANGED <<visitedFolders, listed, photosOut>>
  /\ UNCHANGED <<children, parentOf, edition, scanPc, folderConfig, specsDone,
                 allPhotos, uniquePhotos>>
  /\ UNCHANGED walkVars
  /\ UNCHANGED outsideScan

\* return photos; the caller pushes them behind its own
ScanReturn ==
  /\ scanPc = "scan"
  /\ stack # << >>
  /\ stack[Len(stack)].todo = {}
  /\ stack' = SubSeq(stack, 1, Len(stack) - 1)
  /\ scanPc' = IF Len(stack) = 1 THEN "scanned" ELSE "scan"
  /\ UNCHANGED <<children, parentOf, edition, folderConfig, specsDone, visitedFolders,
                 photosOut, allPhotos, uniquePhotos, listed>>
  /\ UNCHANGED walkVars
  /\ UNCHANGED outsideScan

\* makeRequest throws; scanFolder and fullScan rethrow
ScanThrow ==
  /\ scanPc = "scan"
  /\ scanPc' = "failed"
  /\ stack' = << >>
  /\ UNCHANGED <<children, parentOf, edition, folderConfig, specsDone, visitedFolders,
                 photosOut, allPhotos, uniquePhotos, listed>>
  /\ UNCHANGED walkVars
  /\ UNCHANGED outsideScan

\* allPhotos.push(...photos)
Collect ==
  /\ scanPc = "scanned"
  /\ allPhotos' = allPhotos \o photosOut
  /\ specsDone' = specsDone + 1
  /\ scanPc' = "loop"
  /\ UNCHANGED <<children, parentOf, edition, folderConfig, stack, visitedFolders,
                 photosOut, uniquePhotos, listed>>
  /\ UNCHANGED walkVars
  /\ UNCHANGED outsideScan

\* the loop is over (config.folders had specsDone entries): remove duplicates, return
RemoveDuplicates ==
  /\ scanPc = "loop"
  /\ uniquePhotos' = MapValues(<< >>, allPhotos)
  /\ scanPc' = "returned"
  /\ UNCHANGED <<children, parentOf, edition, folderConfig, specsDone, stack,
                 visitedFolders, photosOut, allPhotos, listed>>
  /\ UNCHANGED walkVars
  /\ UNCHANGED outsideScan

\* the caller has the photos or the error
ScanSettle ==
  /\ scanPc \in {"returned", "failed"}
  /\ scanPc' = "idle"
  /\ folderConfig' = [id |-> NULL, depth |-> -1]
  /\ specsDone' = 0
  /\ visitedFolders' = {}
  /\ photosOut' = << >>
  /\ allPhotos' = << >>
  /\ uniquePhotos' = << >>
  /\ listed' = << >>
  /\ UNCHANGED <<children, parentOf, edition, stack>>
  /\ UNCHANGED walkVars
  /\ UNCHANGED outsideScan

\* a user renames photos while the provider is scanning
RemoteRename ==
  /\ edition < MaxEdition
  /\ scanPc # "idle"
  /\ edition' = edition + 1
  /\ UNCHANGED <<children, parentOf, scanPc, folderConfig, specsDone, stack,
                 visitedFolders, photosOut, allPhotos, uniquePhotos, listed>>
  /\ UNCHANGED walkVars
  /\ UNCHANGED outsideScan

\* --------------------------------- OneDriveProvider: incremental membership
maxDepth == 20          \* const maxDepth = 20 of isDescendantOf

\* config.folders, as the ids of its entries
FolderConfigs == UNION {[1..n -> SpecIds] : n \in 0..MaxFolderSpecs}

\* the items a change page can carry: deletions, and images in any folder or none
ChangeItems ==
  [id : {1}, deleted : BOOLEAN, parentId : Folders \cup {NULL}]

\* one item of getChanges's for (const item of data.value), up to the first
\* comparison of isPhotoInMonitoredFolders
getChanges ==
  /\ memPc = "idle"
  /\ scanPc = "idle"
  /\ \E it \in ChangeItems, cfg \in FolderConfigs :
       /\ it.deleted => it.parentId = NULL
       /\ item' = it
       /\ folders' = cfg
       /\ IF it.deleted
          THEN /\ deletedIds' = deletedIds \cup {it.id}
               /\ memPc' = "answered"
               /\ UNCHANGED changedIds
          ELSE IF cfg = << >>
          THEN /\ changedIds' = changedIds \cup {it.id}
               /\ memPc' = "answered"
               /\ UNCHANGED deletedIds
          ELSE /\ memPc' = IF it.parentId = NULL THEN "answered" ELSE "match"
               /\ UNCHANGED <<changedIds, deletedIds>>
  /\ idx' = 1
  /\ UNCHANGED <<children, parentOf, edition, currentId, visited, depth, lookups,
                 lookupFailed>>
  /\ UNCHANGED fullScanVars
  /\ UNCHANGED outsideScan

\* for (const folderConfig of folders): parentId === monitoredFolderId, else the
\* call of isDescendantOf(parentId, monitoredFolderId); return false after the loop
MatchFolder ==
  /\ memPc = "match"
  /\ IF idx > Len(folders)
     THEN /\ memPc' = "answered"
          /\ UNCHANGED <<changedIds, currentId, visited, depth, lookups>>
     ELSE IF item.parentId = folders[idx]
     THEN /\ memPc' = "answered"
          /\ changedIds' = changedIds \cup {item.id}
          /\ UNCHANGED <<currentId, visited, depth, lookups>>
     ELSE /\ memPc' = "walk"
          /\ currentId' = item.parentId
          /\ visited' = {}
          /\ depth' = 0
          /\ lookups' = 0
          /\ UNCHANGED changedIds
  /\ UNCHANGED <<children, parentOf, edition, item, folders, idx, deletedIds, lookupFailed>>
  /\ UNCHANGED fullScanVars
  /\ UNCHANGED outsideScan

\* while (currentId && depth < maxDepth)
WithinLimit == depth < maxDepth

\* one pass of the loop of isDescendantOf; false sends the caller to its next folder
WalkStep ==
  /\ memPc = "walk"
  /\ IF ~(currentId # NULL /\ WithinLimit) \/ currentId \in visited
     THEN /\ memPc' = "match"
          /\ idx' = idx + 1
          /\ UNCHANGED <<changedIds, currentId, visited, depth, lookups, lookupFailed>>
     ELSE IF currentId = folders[idx]
     THEN /\ memPc' = "answered"
          /\ changedIds' = changedIds \cup {item.id}
          /\ UNCHANGED <<idx, currentId, visited, depth, lookups, lookupFailed>>
     ELSE /\ lookups' = lookups + 1
          /\ visited' = visited \cup {currentId}
          /\ \/ /\ parentOf[currentId] # NULL
                /\ currentId' = parentOf[currentId]
                /\ depth' = depth + 1
                /\ UNCHANGED <<memPc, idx, lookupFailed>>
             \/ /\ parentOf[currentId] = NULL
                /\ memPc' = "match"
                /\ idx' = idx + 1
                /\ UNCHANGED <<currentId, depth, lookupFailed>>
             \/ /\ lookupFailed' = TRUE
                /\ memPc' = "match"
                /\ idx' = idx + 1
                /\ UNCHANGED <<currentId, depth>>
          /\ UNCHANGED changedIds
  /\ UNCHANGED <<children, parentOf, edition, item, folders, deletedIds>>
  /\ UNCHANGED fullScanVars
  /\ UNCHANGED outsideScan

\* getChanges returns { photos, deletedIds, nextToken }
ChangesSettle ==
  /\ memPc = "answered"
  /\ memPc' = "idle"
  /\ item' = [id |-> 1, deleted |-> FALSE, parentId |-> NULL]
  /\ folders' = << >>
  /\ idx' = 1
  /\ currentId' = NULL
  /\ visited' = {}
  /\ depth' = 0
  /\ changedIds' = {}
  /\ deletedIds' = {}
  /\ lookups' = 0
  /\ lookupFailed' = FALSE
  /\ UNCHANGED <<children, parentOf, edition>>
  /\ UNCHANGED fullScanVars
  /\ UNCHANGED outsideScan

\* whether file p was in the monitored folders when the feed stood at token k
PresentAt(p, k) ==
  LET later == {i \in DOMAIN changeLog : i >= k /\ changeLog[i].fileId = p}
  IN IF later = {} THEN p \in remoteFiles
     ELSE LET first == CHOOSE i \in later : \A j \in later : i <= j
          IN changeLog[first].removed

\* the row of p is what some state of the drive at or after the stored token calls for
AppliedBehindCursor(p) ==
  \E k \in changes_token..HeadToken : (p \in photosTable) <=> PresentAt(p, k)

\* the next scan is a full scan: scanForChanges finds no token
needsFullRescan == changes_token = NULL

\* ---------------------------------------------------------- specifications
CacheInit ==
  /\ cached_path = [p \in Photos |-> FALSE]
  /\ cached_size_bytes = [p \in Photos |-> NULL]
  /\ cached_at = [p \in Photos |-> FALSE]
  /\ last_viewed_at = [p \in Photos |-> NULL]
  /\ files = [p \in Photos |-> "none"]
  /\ isRunning = FALSE
  /\ consecutiveFailures = 0
  /\ tickPc = "idle"
  /\ evicting = {}
  /\ photos = {}
  /\ results = << >>
  /\ displaySel = NULL
  /\ now = 0
  /\ inBody = 0
  /\ lastFiringDropped = FALSE
  /\ afterCooling = FALSE
  /\ shown = << >>
  /\ trail = << >>
  /\ count = EvictBatch

\* the process has not started; the file is absent, damaged, freshly created by an
\* earlier run, or left by an earlier run whose scan completed
StoreInit ==
  /\ remoteFiles \in SUBSET Photos
  /\ changeLog = << >>
  /\ \/ /\ dbFile = "missing" /\ hasSchema = FALSE
        /\ photosTable = {} /\ changes_token = NULL
     \/ /\ dbFile = "corrupt" /\ hasSchema = FALSE
        /\ photosTable = {} /\ changes_token = NULL
     \/ /\ dbFile = "valid" /\ hasSchema = TRUE
        /\ photosTable = {} /\ changes_token = NULL
     \/ /\ dbFile = "valid" /\ hasSchema = TRUE
        /\ photosTable = remoteFiles /\ changes_token = 1
  /\ storePc = "open"
  /\ pageToken = NULL
  /\ response = NoResponse
  /\ changedPhotos = {}
  /\ integrity = "none"
  /\ rowsAtOpen = {}
  /\ kills = 0

\* the store as the cache manager's tests set it up
StoreParked ==
  /\ remoteFiles = {}
  /\ changeLog = << >>
  /\ dbFile = "valid" /\ hasSchema = TRUE
  /\ photosTable = {} /\ changes_token = NULL
  /\ storePc = "idle"
  /\ pageToken = NULL
  /\ response = NoResponse
  /\ changedPhotos = {}
  /\ integrity = "none"
  /\ rowsAtOpen = {}
  /\ kills = 0

\* the first design before its first tick, every photo discovered and none cached
DesignInit ==
  /\ is_deleted = [p \in Photos |-> FALSE]
  /\ cachedPath = [p \in Photos |-> FALSE]
  /\ lastViewedAt = [p \in Photos |-> NULL]
  /\ finalFile = [p \in Photos |-> FALSE]
  /\ tempFile = [p \in Photos |-> FALSE]
  /\ isTickRunning = FALSE
  /\ cachePc = "idle"
  /\ downloadPc = [p \in Photos |-> "none"]
  /\ photo = NULL
  /\ clock = 0
  /\ staleAtSelect = {}
  /\ emittedDeleted = {}
  /\ tombstonedAtTick = {}
  /\ rowsAtSelect = {}
  /\ failedWith = [p \in Photos |-> "none"]
  /\ sent = << >>

ProviderInit ==
  /\ accessToken = 1
  /\ tokenExpiry \in 0..MaxExpiresIn
  /\ time = 0
  /\ op = "none"
  /\ opPc = "idle"
  /\ attempt = 0
  /\ error = "none"
  /\ requests = 0
  /\ waits = << >>
  /\ sentToken = NULL
  /\ startToken = 1
  /\ startTime = 0
  /\ startExpiry = 0
  /\ tokenFile = TokenSet(1)
  /\ probe = "none"

\* the provider before initialize has read a token file
ProviderParked == ProviderInit /\ tokenExpiry = 0

\* the shape of the drive: every folder but the root names a parent (cycles among
\* them included), one more edge may give a folder a second path, or a chain of
\* ChainLen folders hangs below the chain 1, 2, ..., NumFolders
ScanInit ==
  /\ \E sp \in [SmallFolders \ {RootFolder} -> SmallFolders], deep \in BOOLEAN,
        extra \in {{}} \cup {{e} : e \in SmallFolders \X (SmallFolders \ {RootFolder})} :
       /\ deep => (extra = {} /\ \A f \in SmallFolders \ {RootFolder} : sp[f] = f - 1)
       /\ parentOf = ParentMap(sp, deep)
       /\ children = ChildMap(ParentMap(sp, deep), extra)
  /\ edition = 1
  /\ scanPc = "idle"
  /\ folderConfig = [id |-> NULL, depth |-> -1]
  /\ specsDone = 0
  /\ stack = << >>
  /\ visitedFolders = {}
  /\ photosOut = << >>
  /\ allPhotos = << >>
  /\ uniquePhotos = << >>
  /\ listed = << >>
  /\ memPc = "idle"
  /\ item = [id |-> 1, deleted |-> FALSE, parentId |-> NULL]
  /\ folders = << >>
  /\ idx = 1
  /\ currentId = NULL
  /\ visited = {}
  /\ depth = 0
  /\ changedIds = {}
  /\ deletedIds = {}
  /\ lookups = 0
  /\ lookupFailed = FALSE

\* a drive whose folders all lie directly in the root
ScanParked ==
  /\ ScanInit
  /\ parentOf = ParentMap([f \in SmallFolders \ {RootFolder} |-> RootFolder], FALSE)
  /\ children = ChildMap(parentOf, {})

\* ------------------------------------------------ sync controller: full scan
outsideSync == <<cacheVars, storeVars, designVars, providerVars, scanVars,
  runtimeVars,
  downloadVars,
  rowVars,
  prefetchVars,
  viewVars,
  liveVars>>

Providers == {1, 2}

\* the provider the sync controller scans
ScannedProvider == 1

\* rows the store holds
Rows == {p \in Photos : providerId[p] # NULL}

StaleOrSeenAtStart(p) == lastSeenInScanAt[p] <= scanStartTime

\* lastSeenInScanAt < scanStartTime
Stale(p) == lastSeenInScanAt[p] < scanStartTime

\* the rows a completed full scan marks: same provider, not seen by this scan
Unseen == {p \in Rows : providerId[p] = ScannedProvider /\ Stale(p)}

\* a full scan starts and records its start time
StartSync ==
  /\ syncPc = "idle"
  /\ syncNow < MaxScans
  /\ syncNow' = syncNow + 1
  /\ scanStartTime' = syncNow + 1
  /\ syncPc' = "listing"
  /\ scanResult' = {}
  /\ upserted' = {}
  /\ UNCHANGED <<providerId, lastSeenInScanAt, tombstoned, driveFiles, scanEndTime>>
  /\ UNCHANGED outsideSync

\* OneDriveProvider.fullScan: every photo of the configured folders, or a throw
ProviderFullScan ==
  /\ syncPc = "listing"
  /\ \/ /\ scanResult' = driveFiles
        /\ syncPc' = "upsert"
     \/ /\ scanResult' = {}
        /\ syncPc' = "aborted"
  /\ UNCHANGED <<providerId, lastSeenInScanAt, tombstoned, driveFiles, syncNow,
                 scanStartTime, scanEndTime, upserted>>
  /\ UNCHANGED outsideSync

\* one batch upsert: the row is created when first observed, and revisiting it
\* refreshes lastSeenInScanAt; a store error aborts the scan
UpsertBatch ==
  /\ syncPc = "upsert"
  /\ \/ /\ scanResult \ upserted # {}
        /\ LET p == CHOOSE q \in scanResult \ upserted :
                      \A o \in scanResult \ upserted : q <= o
           IN /\ providerId' = [providerId EXCEPT ![p] = ScannedProvider]
              /\ lastSeenInScanAt' = [lastSeenInScanAt EXCEPT ![p] = syncNow]
              /\ tombstoned' = [tombstoned EXCEPT
                                  ![p] = IF providerId[p] = NULL THEN FALSE ELSE @]
              /\ upserted' = upserted \cup {p}
        /\ syncPc' = "upsert"
     \/ /\ scanResult \ upserted # {}
        /\ syncPc' = "aborted"
        /\ UNCHANGED <<providerId, lastSeenInScanAt, tombstoned, upserted>>
     \/ /\ scanResult \ upserted = {}
        /\ syncPc' = "drained"
        /\ UNCHANGED <<providerId, lastSeenInScanAt, tombstoned, upserted>>
  /\ UNCHANGED <<driveFiles, syncNow, scanStartTime, scanEndTime, scanResult>>
  /\ UNCHANGED outsideSync

\* the scan completed: record its end and mark the rows it did not see
Reconcile ==
  /\ syncPc = "drained"
  /\ tombstoned' = [p \in Photos |-> tombstoned[p] \/ p \in Unseen]
  /\ scanEndTime' = syncNow
  /\ syncPc' = "idle"
  /\ UNCHANGED <<providerId, lastSeenInScanAt, driveFiles, syncNow, scanStartTime,
                 scanResult, upserted>>
  /\ UNCHANGED outsideSync

\* the scan was aborted: nothing is marked
AbortScan ==
  /\ syncPc = "aborted"
  /\ syncPc' = "idle"
  /\ UNCHANGED <<providerId, lastSeenInScanAt, tombstoned, driveFiles, syncNow,
                 scanStartTime, scanEndTime, scanResult, upserted>>
  /\ UNCHANGED outsideSync

\* a photo appears in or disappears from the scanned provider's folders
DriveChange ==
  /\ \E p \in Photos :
       /\ providerId[p] \in {NULL, ScannedProvider}
       /\ driveFiles' = IF p \in driveFiles THEN driveFiles \ {p}
                        ELSE driveFiles \cup {p}
  /\ UNCHANGED <<providerId, lastSeenInScanAt, tombstoned, syncNow, scanStartTime,
                 scanEndTime, syncPc, scanResult, upserted>>
  /\ UNCHANGED outsideSync

\* a store that earlier scans of either provider filled
SyncInit ==
  /\ providerId \in [Photos -> Providers \cup {NULL}]
  /\ lastSeenInScanAt = [p \in Photos |-> 0]
  /\ tombstoned \in [Photos -> BOOLEAN]
  /\ \A p \in Photos : providerId[p] = NULL => ~tombstoned[p]
  /\ driveFiles \in SUBSET {p \in Photos : providerId[p] \in {NULL, ScannedProvider}}
  /\ syncNow = 0
  /\ scanStartTime = 0
  /\ scanEndTime = 0
  /\ syncPc = "idle"
  /\ scanResult = {}
  /\ upserted = {}

\* an empty store and an empty drive
SyncParked ==
  /\ SyncInit
  /\ providerId = [p \in Photos |-> NULL]
  /\ driveFiles = {}

\* ------------------------------------------------------ runtime and shutdown
outsideRuntime == <<cacheVars, storeVars, designVars, providerVars, scanVars, syncVars,
  downloadVars,
  rowVars,
  prefetchVars,
  viewVars,
  liveVars>>

GraceLeftOrDue == waited <= GraceSeconds

\* the shutdown still waits: waited < 5 s
GraceLeft == waited < GraceSeconds

\* the display interval fires and a frame is emitted
DisplayFire ==
  /\ displayTimer
  /\ frames < MaxFrames
  /\ frames' = frames + 1
  /\ UNCHANGED <<displayTimer, timer, syncTimer, inFlight, cancelled, syncBusy, waited,
                 storeState, stopPc, ticks, scans>>
  /\ UNCHANGED outsideRuntime

\* the tick interval fires and the tick starts its downloads
TickFire ==
  /\ timer
  /\ inFlight = 0
  /\ ticks < MaxFrames
  /\ ticks' = ticks + 1
  /\ \E n \in 1..MaxInFlight : inFlight' = n
  /\ UNCHANGED <<displayTimer, timer, syncTimer, cancelled, syncBusy, waited,
                 storeState, stopPc, frames, scans>>
  /\ UNCHANGED outsideRuntime

\* an in-flight download settles (its write to the store is done, or it was cancelled)
DownloadSettles ==
  /\ inFlight > 0
  /\ storeState = "open"
  /\ inFlight' = inFlight - 1
  /\ UNCHANGED <<displayTimer, timer, syncTimer, cancelled, syncBusy, waited,
                 storeState, stopPc, frames, ticks, scans>>
  /\ UNCHANGED outsideRuntime

\* the scan interval fires, or the provider call of the running scan answers
SyncFire ==
  /\ syncTimer
  /\ \/ /\ ~syncBusy
        /\ scans < MaxFrames
        /\ scans' = scans + 1
        /\ syncBusy' = TRUE
     \/ /\ syncBusy
        /\ syncBusy' = FALSE
        /\ UNCHANGED scans
  /\ UNCHANGED <<displayTimer, timer, syncTimer, inFlight, cancelled, waited,
                 storeState, stopPc, frames, ticks>>
  /\ UNCHANGED outsideRuntime

\* the shutdown signal arrives
ShutdownSignal ==
  /\ stopPc = "running"
  /\ stopPc' = "display"
  /\ UNCHANGED <<displayTimer, timer, syncTimer, inFlight, cancelled, syncBusy, waited,
                 storeState, frames, ticks, scans>>
  /\ UNCHANGED outsideRuntime

\* 1. stop display timer (cancel interval)
StopDisplay ==
  /\ stopPc = "display"
  /\ displayTimer' = FALSE
  /\ stopPc' = "cache"
  /\ UNCHANGED <<timer, syncTimer, inFlight, cancelled, syncBusy, waited, storeState,
                 frames, ticks, scans>>
  /\ UNCHANGED outsideRuntime

\* 2. cacheManager.stop(): cancel the tick interval and the in-flight downloads
StopCache ==
  /\ stopPc = "cache"
  /\ timer' = FALSE
  /\ cancelled' = (inFlight > 0)
  /\ waited' = 0
  /\ stopPc' = "settle"
  /\ UNCHANGED <<displayTimer, syncTimer, inFlight, syncBusy, storeState, frames,
                 ticks, scans>>
  /\ UNCHANGED outsideRuntime

\* 3. wait for in-flight cache operations (5 s timeout)
WaitSettled ==
  /\ stopPc = "settle"
  /\ IF inFlight > 0 /\ GraceLeft
     THEN waited' = waited + 1 /\ stopPc' = "settle"
     ELSE waited' = waited /\ stopPc' = "sync"
  /\ UNCHANGED <<displayTimer, timer, syncTimer, inFlight, cancelled, syncBusy,
                 storeState, frames, ticks, scans>>
  /\ UNCHANGED outsideRuntime

\* stop the sync controller and cancel its provider call
StopSync ==
  /\ stopPc = "sync"
  /\ syncTimer' = FALSE
  /\ syncBusy' = FALSE
  /\ stopPc' = "flush"
  /\ UNCHANGED <<displayTimer, timer, inFlight, cancelled, waited, storeState, frames,
                 ticks, scans>>
  /\ UNCHANGED outsideRuntime

\* 4. checkpoint database (PRAGMA wal_checkpoint(TRUNCATE))
FlushStore ==
  /\ stopPc = "flush"
  /\ storeState' = "flushed"
  /\ stopPc' = "close"
  /\ UNCHANGED <<displayTimer, timer, syncTimer, inFlight, cancelled, syncBusy, waited,
                 frames, ticks, scans>>
  /\ UNCHANGED outsideRuntime

\* 5. close database connection
CloseStore ==
  /\ stopPc = "close"
  /\ storeState' = "closed"
  /\ stopPc' = "stopped"
  /\ UNCHANGED <<displayTimer, timer, syncTimer, inFlight, cancelled, syncBusy, waited,
                 frames, ticks, scans>>
  /\ UNCHANGED outsideRuntime

\* every component initialised, the three timers registered
RuntimeInit ==
  /\ displayTimer = TRUE
  /\ timer = TRUE
  /\ syncTimer = TRUE
  /\ inFlight = 0
  /\ cancelled = FALSE
  /\ syncBusy = FALSE
  /\ waited = 0
  /\ storeState = "open"
  /\ stopPc = "running"
  /\ frames = 0
  /\ ticks = 0
  /\ scans = 0

\* ------------------------------------------------ groups that are not running
\* the view and cache columns of a row that was just inserted
FreshRow == [last_viewed_at |-> NULL, cached_path |-> FALSE, cached_at |-> FALSE,
             cached_size_bytes |-> NULL]

\* no scan has saved a known row
RowsParked ==
  /\ filename = [p \in Photos |-> 0]
  /\ rowAtSave = [id |-> NULL, row |-> FreshRow]

PrefetchRows == 1..NumRows

\* a store in which every row is cached
PrefetchParked ==
  /\ rowCached = [p \in PrefetchRows |-> TRUE]
  /\ rowViewedAt = [p \in PrefetchRows |-> NULL]
  /\ batch = {}
  /\ prefetchPc = "idle"
  /\ uncachedAtInit = 0
  /\ uncachedAtTick = {}
  /\ lastBatch = {}
  /\ ticksRun = 0

\* no UPDATE of last_viewed_at is outstanding
ViewParked == pendingViews = << >>

\* no firing of the display timer is being counted
LiveParked == emitted = {} /\ displayParity = FALSE

\* ------------------------------------------- CacheManager.downloadPhoto retries
outsideDownload == <<cacheVars, storeVars, designVars, providerVars, scanVars, syncVars,
  runtimeVars,
  rowVars,
  prefetchVars,
  viewVars,
  liveVars>>

\* a loop that never gives up
LastAttemptNever(n) == FALSE

\* if (attempt === retries) throw error
LastAttempt(n) == n = retries

\* cacheManager.downloadPhoto(photoId) is called
StartDownload ==
  /\ dlPc = "idle"
  /\ Len(dlSettled) < MaxDownloads
  /\ \E p \in Photos : dlPhoto' = p
  /\ dlAttempt' = 1
  /\ dlCalls' = << >>
  /\ dlPc' = "call"
  /\ UNCHANGED dlSettled
  /\ UNCHANGED outsideDownload

\* await this.driveAPI.downloadPhoto(photoId, { timeout: 30000 }): the stream, or
\* an error, which ends the download on the last attempt
CallProvider ==
  /\ dlPc = "call"
  /\ \E ok \in BOOLEAN :
       /\ dlCalls' = Append(dlCalls, [id |-> dlPhoto, timeout |-> DownloadTimeout,
                                      ok |-> ok])
       /\ dlPc' = IF ok THEN "resolved"
                  ELSE IF LastAttempt(dlAttempt) THEN "rejected" ELSE "wait"
  /\ UNCHANGED <<dlPhoto, dlAttempt, dlSettled>>
  /\ UNCHANGED outsideDownload

\* the pause before the next attempt is over
RetryWait ==
  /\ dlPc = "wait"
  /\ dlAttempt' = dlAttempt + 1
  /\ dlPc' = "call"
  /\ UNCHANGED <<dlPhoto, dlCalls, dlSettled>>
  /\ UNCHANGED outsideDownload

\* the caller has the result
DownloadSettled ==
  /\ dlPc \in {"resolved", "rejected"}
  /\ dlSettled' = Append(dlSettled, dlPc)
  /\ dlPc' = "idle"
  /\ dlPhoto' = NULL
  /\ UNCHANGED <<dlAttempt, dlCalls>>
  /\ UNCHANGED outsideDownload

DownloadParked ==
  /\ dlPc = "idle"
  /\ dlPhoto = NULL
  /\ dlAttempt = 1
  /\ dlCalls = << >>
  /\ dlSettled = << >>

InitDownload ==
  /\ CacheInit /\ StoreParked /\ DesignInit /\ ProviderParked /\ ScanParked
  /\ SyncParked /\ RuntimeInit /\ LiveParked /\ ViewParked /\ PrefetchParked /\ RowsParked /\ DownloadParked

NextDownload ==
  \/ StartDownload
  \/ CallProvider
  \/ RetryWait
  \/ DownloadSettled

SpecDownload == InitDownload /\ [][NextDownload]_vars

\* -------------------------------------------- PhotoDatabase.savePhotos on a known row
outsideRows == <<storeVars, designVars, providerVars, scanVars, syncVars, runtimeVars,
  downloadVars,
  prefetchVars,
  viewVars,
  liveVars>>

\* the view and cache columns of a row
Row(p) == [last_viewed_at |-> last_viewed_at[p], cached_path |-> cached_path[p],
           cached_at |-> cached_at[p], cached_size_bytes |-> cached_size_bytes[p]]

\* INSERT OR REPLACE: the row is written anew
ReplacedRow(old) == FreshRow

\* the view and cache columns savePhotos leaves in a row that existed
UpsertedRow(old) == old

\* db.savePhotos([photo]) for a photo the store already holds, found again by a full
\* or an incremental scan with other metadata
UpsertKnown ==
  /\ \E p \in Photos :
       /\ SumOver(filename, Photos) < MaxRenames
       /\ filename' = [filename EXCEPT ![p] = @ + 1]
       /\ rowAtSave' = [id |-> p, row |-> Row(p)]
       /\ LET row == UpsertedRow(Row(p))
          IN /\ last_viewed_at' = [last_viewed_at EXCEPT ![p] = row.last_viewed_at]
             /\ cached_path' = [cached_path EXCEPT ![p] = row.cached_path]
             /\ cached_at' = [cached_at EXCEPT ![p] = row.cached_at]
             /\ cached_size_bytes' = [cached_size_bytes EXCEPT ![p] = row.cached_size_bytes]
  /\ UNCHANGED <<files, isRunning, consecutiveFailures, tickPc, evicting, photos,
                 results, displaySel, now, inBody, lastFiringDropped, afterCooling,
                 shown, trail, count>>
  /\ UNCHANGED outsideRows

InitRows ==
  /\ CacheInit /\ StoreParked /\ DesignInit /\ ProviderParked /\ ScanParked
  /\ SyncParked /\ RuntimeInit /\ LiveParked /\ ViewParked /\ PrefetchParked /\ DownloadParked /\ RowsParked

NextRows ==
  \/ UpsertKnown
  \/ TimerFire
  \/ CheckCacheSize
  \/ EvictUnlink
  \/ EvictClear
  \/ CheckOffline
  \/ SleepWake
  \/ QueryPhotos
  \/ DownloadStep
  \/ AllSettled
  \/ TrackFailures
  \/ DisplaySelect
  \/ DisplayEmit

SpecRows == InitRows /\ [][NextRows]_vars

\* --------------------------------------------- prefetching a larger store over ticks
outsidePrefetch == <<cacheVars, storeVars, designVars, providerVars, scanVars, syncVars,
  runtimeVars, downloadVars, rowVars,
  viewVars,
  liveVars>>

UncachedRows == {p \in PrefetchRows : ~rowCached[p]}

\* a query that looks at every row
RowsToCacheAny ==
  {S \in SUBSET PrefetchRows :
     Cardinality(S) = Min(PrefetchLimit, Cardinality(PrefetchRows))}

\* SELECT id FROM photos WHERE cached_path IS NULL
\* ORDER BY last_viewed_at ASC NULLS FIRST LIMIT 5   (ties in any order)
RowsToCache ==
  {S \in SUBSET UncachedRows :
     /\ Cardinality(S) = Min(PrefetchLimit, Cardinality(UncachedRows))
     /\ \A a \in S, b \in UncachedRows \ S : rowViewedAt[a] <= rowViewedAt[b]}

\* tick(): the cache is under its limit, consecutiveFailures is 0; Step 4, the
\* prefetch query; with no row the tick returns
TickQuery ==
  /\ prefetchPc = "idle"
  /\ ticksRun < MaxPrefetchTicks
  /\ \E S \in RowsToCache :
       /\ uncachedAtTick' = UncachedRows
       /\ lastBatch' = S
       /\ IF S = {}
          THEN /\ ticksRun' = ticksRun + 1
               /\ UNCHANGED <<batch, prefetchPc>>
          ELSE /\ batch' = S
               /\ prefetchPc' = "download"
               /\ UNCHANGED ticksRun
  /\ UNCHANGED <<rowCached, rowViewedAt, uncachedAtInit>>
  /\ UNCHANGED outsidePrefetch

\* Step 5: Promise.allSettled(photos.map(downloadPhoto)), every download fulfilled:
\* each row gets its cached_path; the counter is reset; finally
TickDownloads ==
  /\ prefetchPc = "download"
  /\ rowCached' = [p \in PrefetchRows |-> rowCached[p] \/ p \in batch]
  /\ batch' = {}
  /\ prefetchPc' = "idle"
  /\ ticksRun' = ticksRun + 1
  /\ UNCHANGED <<rowViewedAt, uncachedAtInit, uncachedAtTick, lastBatch>>
  /\ UNCHANGED outsidePrefetch

\* any store the scans, ticks, evictions and displays of earlier days left: rows
\* cached or not, viewed or not
PrefetchInit ==
  /\ rowCached \in [PrefetchRows -> BOOLEAN]
  /\ rowViewedAt \in [PrefetchRows -> 0..MaxViewedAt]
  /\ batch = {}
  /\ prefetchPc = "idle"
  /\ uncachedAtInit = Cardinality({p \in PrefetchRows : ~rowCached[p]})
  /\ uncachedAtTick = {}
  /\ lastBatch = {}
  /\ ticksRun = 0

InitPrefetch ==
  /\ PrefetchInit /\ CacheInit /\ StoreParked /\ DesignInit /\ ProviderParked
  /\ ScanParked /\ SyncParked /\ RuntimeInit /\ LiveParked /\ ViewParked /\ DownloadParked /\ RowsParked

NextPrefetch ==
  \/ TickQuery
  \/ TickDownloads

SpecPrefetch == InitPrefetch /\ [][NextPrefetch]_vars

\* ------------------------------------ PhotoDisplay with the view tracking not awaited
outsideView == <<storeVars, designVars, providerVars, scanVars, syncVars, runtimeVars,
  downloadVars, rowVars, prefetchVars,
  liveVars>>

\* displayNext after the query: readFile, sendSocketNotification, and
\* this.db.run('UPDATE photos SET last_viewed_at = ? ...') issued but not awaited
EmitFrame ==
  /\ displaySel # NULL
  /\ IF Readable(displaySel)
     THEN /\ shown' = Append(shown, displaySel)
          /\ pendingViews' = Append(pendingViews, [id |-> displaySel, at |-> now])
     ELSE /\ shown' = << >>
          /\ UNCHANGED pendingViews
  /\ displaySel' = NULL
  /\ UNCHANGED <<cached_path, cached_size_bytes, cached_at, last_viewed_at, files,
                 isRunning, consecutiveFailures, tickPc, evicting, photos, results,
                 now, inBody, lastFiringDropped, afterCooling, trail, count>>
  /\ UNCHANGED outsideView

\* the oldest outstanding UPDATE is applied
ViewLands ==
  /\ pendingViews # << >>
  /\ last_viewed_at' = [last_viewed_at EXCEPT ![Head(pendingViews).id] = Head(pendingViews).at]
  /\ pendingViews' = Tail(pendingViews)
  /\ UNCHANGED <<cached_path, cached_size_bytes, cached_at, files, isRunning,
                 consecutiveFailures, tickPc, evicting, photos, results, displaySel,
                 now, inBody, lastFiringDropped, afterCooling, shown, trail, count>>
  /\ UNCHANGED outsideView

\* the oldest outstanding UPDATE is rejected: .catch(() => {})
ViewFails ==
  /\ pendingViews # << >>
  /\ pendingViews' = Tail(pendingViews)
  /\ UNCHANGED cacheVars
  /\ UNCHANGED outsideView

\* a cache that earlier ticks filled and earlier frames were shown from; no cache
\* tick runs
ViewInit ==
  /\ cached_path \in [Photos -> BOOLEAN]
  /\ cached_size_bytes = [p \in Photos |-> IF cached_path[p] THEN SizeOf(p) ELSE NULL]
  /\ cached_at = cached_path
  /\ last_viewed_at \in [Photos -> 0..1]
  /\ files = [p \in Photos |-> IF cached_path[p] THEN "full" ELSE "none"]
  /\ isRunning = FALSE
  /\ consecutiveFailures = 0
  /\ tickPc = "idle"
  /\ count = EvictBatch
  /\ evicting = {}
  /\ photos = {}
  /\ results = << >>
  /\ displaySel = NULL
  /\ now = 1
  /\ inBody = 0
  /\ lastFiringDropped = FALSE
  /\ afterCooling = FALSE
  /\ shown = << >>
  /\ trail = << >>
  /\ pendingViews = << >>

InitView ==
  /\ ViewInit /\ StoreParked /\ DesignInit /\ ProviderParked /\ ScanParked
  /\ SyncParked /\ RuntimeInit /\ LiveParked /\ DownloadParked /\ RowsParked /\ PrefetchParked

NextView ==
  \/ DisplaySelect
  \/ EmitFrame
  \/ ViewLands
  \/ ViewFails

SpecView == InitView /\ [][NextView]_vars

\* ---------------------------- CacheManager and PhotoDisplay with timers that keep firing
outsideLive == <<storeVars, designVars, providerVars, scanVars, syncVars, runtimeVars,
  downloadVars, rowVars, prefetchVars, viewVars>>

\* downloadPhoto with a provider that always succeeds
DownloadOk == \E p \in Photos : downloadPhoto(p, "ok")

\* the UPDATE of last_viewed_at to Date.now(): the queries only compare the stamps,
\* so a stamp is kept as its rank among the stamps of the table, NULL apart
Stamped(p) ==
  LET others == {last_viewed_at[q] : q \in Photos \ {p}} \ {NULL}
  IN [q \in Photos |->
        IF q = p THEN Cardinality(others) + 1
        ELSE IF last_viewed_at[q] = NULL THEN NULL
        ELSE Cardinality({w \in others : w <= last_viewed_at[q]})]

\* setInterval(() => this.displayNext(), 60000): displayNext up to the query
\* result; if (!photo) return
ShowSelect ==
  /\ displaySel = NULL
  /\ displayParity' = ~displayParity
  /\ IF DisplayCandidates = {}
     THEN displaySel' = NULL
     ELSE \E p \in DisplayCandidates : displaySel' = p
  /\ UNCHANGED <<cached_path, cached_size_bytes, cached_at, last_viewed_at, files,
                 isRunning, consecutiveFailures, tickPc, evicting, photos, results,
                 now, inBody, lastFiringDropped, afterCooling, shown, trail, count>>
  /\ UNCHANGED emitted
  /\ UNCHANGED outsideLive

\* readFile(photo.cached_path); sendSocketNotification; UPDATE last_viewed_at;
\* a readFile error is caught and logged
ShowEmit ==
  /\ displaySel # NULL
  /\ IF Readable(displaySel)
     THEN /\ emitted' = emitted \cup {displaySel}
          /\ last_viewed_at' = Stamped(displaySel)
     ELSE UNCHANGED <<emitted, last_viewed_at>>
  /\ displaySel' = NULL
  /\ UNCHANGED <<cached_path, cached_size_bytes, cached_at, files, isRunning,
                 consecutiveFailures, tickPc, evicting, photos, results, now, inBody,
                 lastFiringDropped, afterCooling, shown, trail, count>>
  /\ UNCHANGED displayParity
  /\ UNCHANGED outsideLive

InitLive ==
  /\ CacheInit /\ StoreParked /\ DesignInit /\ ProviderParked /\ ScanParked
  /\ SyncParked /\ RuntimeInit /\ DownloadParked /\ RowsParked /\ PrefetchParked
  /\ ViewParked /\ LiveParked

NextLive ==
  \/ TimerFire
  \/ CheckCacheSize
  \/ EvictUnlink
  \/ EvictClear
  \/ CheckOffline
  \/ QueryPhotos
  \/ DownloadOk
  \/ AllSettled
  \/ TrackFailures
  \/ ShowSelect
  \/ ShowEmit

\* both timers keep firing and every awaited step of a tick completes
LiveFairness ==
  /\ WF_vars(TimerFire)
  /\ WF_vars(CheckCacheSize)
  /\ WF_vars(EvictUnlink)
  /\ WF_vars(EvictClear)
  /\ WF_vars(CheckOffline)
  /\ WF_vars(QueryPhotos)
  /\ WF_vars(DownloadOk)
  /\ WF_vars(AllSettled)
  /\ WF_vars(TrackFailures)
  /\ WF_vars(ShowSelect)
  /\ WF_vars(ShowEmit)

SpecLive == InitLive /\ [][NextLive]_vars /\ LiveFairness

Init == CacheInit /\ StoreParked /\ DesignInit /\ ProviderParked /\ ScanParked /\ SyncParked /\ RuntimeInit /\ LiveParked /\ ViewParked /\ PrefetchParked /\ RowsParked /\ DownloadParked

Next ==
  \/ TimerFire
  \/ CheckCacheSize
  \/ EvictUnlink
  \/ EvictClear
  \/ CheckOffline
  \/ SleepWake
  \/ QueryPhotos
  \/ DownloadStep
  \/ AllSettled
  \/ TrackFailures
  \/ DisplaySelect
  \/ DisplayEmit

Spec == Init /\ [][Next]_vars

InitStore == StoreInit /\ CacheInit /\ DesignInit /\ ProviderParked /\ ScanParked /\ SyncParked /\ RuntimeInit /\ LiveParked /\ ViewParked /\ PrefetchParked /\ RowsParked /\ DownloadParked

NextStore ==
  \/ OpenDatabase
  \/ IntegrityCheck
  \/ UnlinkDatabase
  \/ ReopenDatabase
  \/ createSchema
  \/ GetToken
  \/ SaveStartToken
  \/ fullScan
  \/ ChangesList
  \/ ApplyChanges
  \/ SaveToken
  \/ savePhotos
  \/ KillAndRestart
  \/ RemoteAdd
  \/ RemoteRemove

SpecStore == InitStore /\ [][NextStore]_vars

\* the scan timer keeps firing, every step of a started scan or initDatabase is
\* taken, and a provider call that is repeated eventually succeeds (the request
\* for each page of the change feed included)
StoreFairness ==
  /\ WF_vars(OpenDatabase) /\ WF_vars(IntegrityCheck) /\ WF_vars(UnlinkDatabase)
  /\ WF_vars(ReopenDatabase) /\ WF_vars(createSchema)
  /\ WF_vars(GetToken) /\ WF_vars(SaveStartToken)
  /\ WF_vars(ApplyChanges) /\ WF_vars(SaveToken) /\ WF_vars(savePhotos)
  /\ SF_vars(fullScan /\ storePc' = "returned")
  /\ \A t \in 1..(MaxLog + 1) :
       SF_vars(pageToken = t /\ ChangesList /\ storePc' = "apply")

SpecStoreLive == InitStore /\ [][NextStore]_vars /\ StoreFairness

InitV1 == DesignInit /\ CacheInit /\ StoreParked /\ ProviderParked /\ ScanParked /\ SyncParked /\ RuntimeInit /\ LiveParked /\ ViewParked /\ PrefetchParked /\ RowsParked /\ DownloadParked

NextV1 ==
  \/ cacheTick
  \/ CheckCacheState
  \/ evictOldPhotos
  \/ QueryBatch
  \/ downloadWithRetry
  \/ streamDownload
  \/ ProcessImage
  \/ CommitDownload
  \/ cleanupFailedDownload
  \/ batchDownloadPhotos
  \/ markPhotoDeleted
  \/ SelectPhoto
  \/ SendPhoto

SpecV1 == InitV1 /\ [][NextV1]_vars

InitProvider == ProviderInit /\ CacheInit /\ StoreParked /\ DesignInit /\ ScanParked /\ SyncParked /\ RuntimeInit /\ LiveParked /\ ViewParked /\ PrefetchParked /\ RowsParked /\ DownloadParked

NextProvider ==
  \/ initialize
  \/ makeRequest
  \/ StartDownloadPhoto
  \/ isOnline
  \/ CheckExpiry
  \/ refreshAccessToken
  \/ OpenTokenFile
  \/ WriteTokenFile
  \/ Crash
  \/ Send
  \/ Backoff
  \/ Settle
  \/ Elapse

SpecProvider == InitProvider /\ [][NextProvider]_vars

InitScan == ScanInit /\ CacheInit /\ StoreParked /\ DesignInit /\ ProviderParked /\ SyncParked /\ RuntimeInit /\ LiveParked /\ ViewParked /\ PrefetchParked /\ RowsParked /\ DownloadParked

NextScan ==
  \/ StartFullScan
  \/ NextFolderConfig
  \/ ScanItem
  \/ ScanReturn
  \/ ScanThrow
  \/ Collect
  \/ RemoveDuplicates
  \/ ScanSettle
  \/ RemoteRename
  \/ getChanges
  \/ MatchFolder
  \/ WalkStep
  \/ ChangesSettle

SpecScan == InitScan /\ [][NextScan]_vars

InitSync == SyncInit /\ CacheInit /\ StoreParked /\ DesignInit /\ ProviderParked /\ ScanParked /\ RuntimeInit /\ LiveParked /\ ViewParked /\ PrefetchParked /\ RowsParked /\ DownloadParked

NextSync ==
  \/ StartSync
  \/ ProviderFullScan
  \/ UpsertBatch
  \/ Reconcile
  \/ AbortScan
  \/ DriveChange

SpecSync == InitSync /\ [][NextSync]_vars

InitRuntime ==
  /\ RuntimeInit /\ LiveParked /\ ViewParked /\ PrefetchParked /\ RowsParked /\ DownloadParked /\ CacheInit /\ StoreParked /\ DesignInit /\ ProviderParked
  /\ ScanParked /\ SyncParked

NextRuntime ==
  \/ DisplayFire
  \/ TickFire
  \/ DownloadSettles
  \/ SyncFire
  \/ ShutdownSignal
  \/ StopDisplay
  \/ StopCache
  \/ WaitSettled
  \/ StopSync
  \/ FlushStore
  \/ CloseStore

SpecRuntime == InitRuntime /\ [][NextRuntime]_vars

\* a cache that earlier ticks filled: any rows cached, viewed or not, and the file
\* of a cached row possibly removed from the cache directory since
EvictInit ==
  /\ cached_path \in [Photos -> BOOLEAN]
  /\ cached_size_bytes = [p \in Photos |-> IF cached_path[p] THEN SizeOf(p) ELSE NULL]
  /\ cached_at = cached_path
  /\ last_viewed_at \in [Photos -> 0..MaxClock]
  /\ files \in [Photos -> {"none", "full"}]
  /\ \A p \in Photos : ~cached_path[p] => files[p] = "none"
  /\ isRunning = FALSE
  /\ consecutiveFailures = 0
  /\ tickPc = "idle"
  /\ count = EvictBatch
  /\ evicting = {}
  /\ photos = {}
  /\ results = << >>
  /\ displaySel = NULL
  /\ now = MaxClock
  /\ inBody = 0
  /\ lastFiringDropped = FALSE
  /\ afterCooling = FALSE
  /\ shown = << >>
  /\ trail = << >>

InitEvict ==
  /\ EvictInit /\ StoreParked /\ DesignInit /\ ProviderParked /\ ScanParked
  /\ SyncParked /\ RuntimeInit /\ LiveParked /\ ViewParked /\ PrefetchParked /\ RowsParked /\ DownloadParked

NextEvict ==
  \/ StartEvict
  \/ EvictUnlink
  \/ EvictClear
  \/ EvictReturn

SpecEvict == InitEvict /\ [][NextEvict]_vars

\* ------------------------------------------------------------------ claims

\* C1: at most one tick body executes at any time, and a timer firing that
\* arrives while a tick is in progress (evicting, downloading or in the 60 s
\* wait) returns at the guard: it changes no row, no file and no tick state.
C1_SingleFlight ==
  /\ [](inBody <= 1)
  /\ [][(lastFiringDropped' /\ ~lastFiringDropped) =>
          /\ isRunning /\ tickPc # "idle"
          /\ UNCHANGED <<cached_path, cached_size_bytes, last_viewed_at, files,
                         isRunning, consecutiveFailures, tickPc, evicting, photos,
                         results, inBody>>]_vars

\* a firing was dropped while the tick served the cooling wait
C1_Witness == lastFiringDropped /\ tickPc = "sleep" /\ inBody = 1

\* C2 (as claimed): after every tick has returned, the cached sizes sum to at
\* most MAX_CACHE_BYTES unless a single cached row alone exceeds it.
C2_CapRespected ==
  tickPc = "idle" =>
    \/ getCacheSizeBytes <= MaxCacheBytes
    \/ \E p \in Cached : cached_size_bytes[p] > MaxCacheBytes

\* C3 (as claimed): once consecutiveFailures is 3, the next tick requests no
\* prefetch candidates and starts no download.
C3_NoPrefetchAtThree ==
  tickPc \in {"query", "download"} => consecutiveFailures < OfflineThreshold

\* C4: the cooling wait can always end; when it ends the tick returns with
\* consecutiveFailures = 0; the first tick after it goes on to the prefetch
\* query, and if one of its downloads succeeds that photo is cached and the
\* counter is 0 when the tick returns.
C4_CoolingEnds ==
  /\ [](tickPc = "sleep" => ENABLED SleepWake)
  /\ [][(tickPc = "sleep" /\ tickPc' # "sleep") =>
          (tickPc' = "idle" /\ ~isRunning' /\ consecutiveFailures' = 0)]_vars
  /\ [][(afterCooling /\ tickPc = "degrade" /\ tickPc' # "degrade") =>
          tickPc' = "query"]_vars
  /\ [][(afterCooling /\ tickPc = "track" /\ tickPc' = "idle"
           /\ \E p \in photos : results[p] = "fulfilled") =>
          /\ consecutiveFailures' = 0
          /\ \E p \in photos : cached_path'[p] /\ cached_size_bytes'[p] = SizeOf(p)]_vars

\* the first tick after a cooling wait has downloaded a photo
C4_Witness ==
  /\ afterCooling /\ tickPc = "track" /\ consecutiveFailures = 0
  /\ \E p \in photos : results[p] = "fulfilled" /\ cached_path[p]

\* C5: when a tick that attempted downloads returns, consecutiveFailures is one
\* more than before if every attempt was rejected, and 0 if any was fulfilled.
C5_FailurePolicy ==
  [][(tickPc = "track" /\ tickPc' = "idle") =>
       LET rejected == {p \in photos : results[p] = "rejected"}
       IN /\ photos # {}
          /\ (rejected = photos => consecutiveFailures' = consecutiveFailures + 1)
          /\ (rejected # photos => consecutiveFailures' = 0)]_vars

\* a tick returned with one attempt rejected and another fulfilled
C5_Witness ==
  /\ tickPc = "idle" /\ consecutiveFailures = 0
  /\ \E p, q \in DOMAIN results : results[p] = "rejected" /\ results[q] = "fulfilled"

C7_NoTombstonedFrame == emittedDeleted = {}

\* a photo was selected while a tombstoned row still held its cached file, and
\* another row had been tombstoned by a failed download
C7_Witness ==
  /\ photo # NULL
  /\ staleAtSelect # {}
  /\ \E p \in Photos : is_deleted[p] /\ ~cachedPath[p]

\* C8 (as claimed): the stored cursor is replaced only after every change of the
\* scan that produced it is in the store, so whenever the process starts, no
\* change behind the stored cursor is missing from the photos table.
C8_CursorAfterApply ==
  (storePc = "open" /\ changes_token # NULL) =>
    \A i \in DOMAIN changeLog :
      i < changes_token => AppliedBehindCursor(changeLog[i].fileId)

\* C9 (as claimed): whatever the file at dbPath is at startup, initDatabase
\* returns a usable store: the rows it held if the integrity check passed,
\* otherwise an empty store with its schema and a full rescan due.
C9_InitUsable ==
  storePc = "ready" =>
    /\ hasSchema
    /\ integrity = "ok" => photosTable = rowsAtOpen
    /\ integrity # "ok" => (photosTable = {} /\ needsFullRescan)

\* C10 (as claimed): when no tick is running, every file in the cache directory
\* is the cached_path of a row: no partial file and no file of a failed
\* download or of an evicted photo is left.
C10_NoOrphanFiles ==
  tickPc = "idle" => \A p \in Photos : files[p] # "none" => cached_path[p]

\* C11 (as claimed): when no tick is running every row is either uncached, with
\* cached_path, cached_size_bytes and cached_at all NULL, or a file row with all
\* three set and the size that of its file; an evicted row has no cache field left.
C11_RowShapes ==
  tickPc = "idle" =>
    \A p \in Photos :
      \/ ~cached_path[p] /\ cached_size_bytes[p] = NULL /\ ~cached_at[p]
      \/ /\ cached_path[p] /\ cached_at[p]
         /\ files[p] = "full" /\ cached_size_bytes[p] = SizeOf(p)

\* C12 (as claimed): a display tick that found a cached row ends by emitting that
\* row as a frame, whatever the cache tick is doing at the time (inside a tick,
\* in the 60 s cooling wait, or failing to reach the provider).
C12_FrameEveryTick ==
  [][(displaySel # NULL /\ displaySel' = NULL)
       => shown' = Append(shown, displaySel)]_vars

\* C13 (as claimed): a cached photo that was tombstoned before a cache tick began
\* has lost its file and its cached_path by the time that tick has returned,
\* whether or not the cache was over its cap.
C13_TombstoneReleased ==
  (cachePc = "idle" /\ ~isTickRunning) =>
    \A p \in tombstonedAtTick : ~cachedPath[p] /\ ~finalFile[p]

C15_NoRetryOnClientError ==
  error \in {"unauthorized", "forbidden", "notfound"} =>
    /\ opPc \in {"thrown", "idle"}
    /\ Len(waits) = requests - 1

C15_Witness ==
  /\ op = "makeRequest" /\ opPc = "thrown" /\ error = "notfound"
  /\ requests = 1 /\ waits = << >>

\* C16: a request never carries the token the operation started with if that
\* token was within five minutes of its expiry when the operation started; and
\* an operation whose token refresh failed has sent no request.
C16_TokenCheckedFirst ==
  /\ (requests > 0 /\ sentToken = startToken) => startTime < startExpiry - RefreshMargin
  /\ error = "refresh" => requests = 0

C16_Witness ==
  /\ requests > 0 /\ sentToken # startToken
  /\ startTime >= startExpiry - RefreshMargin
  /\ op = "downloadPhoto"

\* the folder a scan of folderConfig.id starts in
StartOf(id) == IF id = NULL THEN RootFolder ELSE id

\* the folders at most k levels below f (f itself is level 0)
RECURSIVE WithinDistance(_, _)
WithinDistance(f, k) ==
  IF k = 0 THEN {f}
  ELSE UNION {{g} \cup children[g] : g \in WithinDistance(f, k - 1)}

\* f and everything below it
Below(f) == WithinDistance(f, Cardinality(Folders))

\* the folders scanFolder(f, limit) is to cover
Scope(f, limit) == IF limit = -1 THEN Below(f) ELSE WithinDistance(f, limit)

\* below f the drive is a tree: one way down to every folder, and no way back to f
TreeBelow(f) ==
  LET R == Below(f)
  IN /\ \A g \in R \ {f} : Cardinality({h \in R : g \in children[h]}) = 1
     /\ \A h \in R : f \notin children[h]

Under(pid, id) ==
  \/ id = NULL
  \/ pid # NULL /\ pid \in Below(id)

\* C20 (as claimed): a deleted item always reaches deletedIds, and a created or
\* updated photo is passed on exactly when its parent folder is under one of the
\* configured FolderSpecs (stated here for a photo that has a parent folder, a
\* configuration of at least one FolderSpec, and a check that met no lookup error).
C20_MembershipFilter ==
  memPc = "answered" =>
    /\ item.deleted => item.id \in deletedIds
    /\ (~item.deleted /\ item.parentId # NULL /\ folders # << >> /\ ~lookupFailed) =>
         (item.id \in changedIds <=> \E i \in DOMAIN folders : Under(item.parentId, folders[i]))

\* C21: a full scan marks rows only when it completed, and then exactly the rows
\* of the scanned provider whose lastSeenInScanAt is older than the scan's start;
\* an aborted full scan marks no row.
C21_TombstoneOnlyOnCompletion ==
  [][/\ (syncPc = "drained" /\ syncPc' = "idle") =>
          \A p \in Photos :
            (tombstoned'[p] /\ ~tombstoned[p]) <=>
              (/\ ~tombstoned[p]
               /\ providerId[p] = ScannedProvider
               /\ lastSeenInScanAt[p] < scanStartTime)
     /\ ~(syncPc = "drained" /\ syncPc' = "idle") =>
          \A p \in Rows : tombstoned'[p] = tombstoned[p]]_vars

\* the second scan completed and marked a row of the scanned provider that the
\* first scan had still seen, and left a row of the other provider alone
C21_Witness ==
  /\ syncPc = "idle"
  /\ scanEndTime = 2
  /\ \E p \in Rows : providerId[p] = ScannedProvider /\ tombstoned[p]
                      /\ lastSeenInScanAt[p] = 1
  /\ \E p \in Rows : providerId[p] # ScannedProvider /\ ~tombstoned[p]

\* C22 (as claimed): the first scan after startup is a full scan exactly when no
\* cursor is stored (a full rescan is due), with the initial cursor acquired and
\* stored only once that full scan has returned, and is otherwise an incremental
\* scan that starts from the stored cursor.
C22_FirstSync ==
  [][/\ (storePc = "ready" /\ storePc' \notin {"ready", "open"}) =>
          IF needsFullRescan
          THEN storePc' \in {"startToken", "fullScan"}
          ELSE storePc' = "list" /\ pageToken' = changes_token
     /\ (changes_token = NULL /\ changes_token' # NULL) => storePc = "returned"]_vars

\* C23 (as claimed): while scans keep running and provider calls eventually
\* succeed, the store becomes consistent with the drive: from some point on every
\* photo the monitored folders hold has a row, a photo added while the first
\* full scan was running included.
C23_EventuallyConsistent == <>[](remoteFiles \subseteq photosTable)

C26_TokenFileWhole ==
  opPc \in {"crashed", "thrown", "idle"} =>
    /\ tokenFile.content = "complete"
    /\ tokenFile.access_token \in {startToken, accessToken}

\* the orders in which a tick can pass through its steps
TickOrders ==
  {<<"size", "unlink", "clear", "degrade", "sleep">>,
   <<"size", "unlink", "clear", "degrade", "query", "download", "track">>,
   <<"size", "degrade", "sleep">>,
   <<"size", "degrade", "query", "download", "track">>}

\* C27: a tick takes its steps in a fixed order: the size check and, when the
\* cache is over its limit, the whole eviction come before the cooling check,
\* and the cooling check before the first download; a cooling tick has evicted
\* if the cache was over its limit and returns without downloading.
C27_TickOrder ==
  [][/\ \E o \in TickOrders :
          Len(trail') <= Len(o) /\ trail' = SubSeq(o, 1, Len(trail'))
     /\ (tickPc = "size" /\ tickPc' # "size") =>
          ((tickPc' = "unlink") <=> (getCacheSizeBytes > MaxCacheBytes))
     /\ tickPc' = "degrade" => evicting' = {}
     /\ (\E p \in Photos : cached_path[p] /\ ~cached_path'[p]) => tickPc = "clear"
     /\ (\E p \in Photos : files'[p] # files[p] /\ files'[p] # "none") =>
          (tickPc = "download" /\ trail[Len(trail) - 2] = "degrade")
     /\ tickPc = "sleep" => tickPc' \in {"sleep", "idle"}]_vars

\* a tick that found the cache over its limit has evicted, passed the cooling
\* check and settled a download
C27_Witness ==
  /\ trail = <<"size", "unlink", "clear", "degrade", "query", "download">>
  /\ \E p \in photos : results[p] = "fulfilled"

\* C28 (as claimed): a tick that finds the cache over its cap evicts cached rows
\* in ascending lastViewedAt order, never-viewed rows first, and stops only when
\* the total is back within the cap (the claim asks for 10 MiB below it) or no
\* cached row is left; a tick that finds the cache within its cap evicts nothing.
C28_EvictUntilHeadroom ==
  [][/\ (cachePc = "evict" /\ cachePc' # "evict") =>
          LET evicted == {p \in Photos : cachedPath[p] /\ ~cachedPath'[p]}
              kept == {p \in Photos : cachedPath'[p]}
          IN /\ \A a \in evicted, b \in kept : lastViewedAt[a] <= lastViewedAt[b]
             /\ \/ SumOver([p \in Photos |-> SizeOf(p)], kept) <= MaxCacheBytes
                \/ kept = {}
     /\ (cachePc = "state" /\ getCacheState.totalBytes <= MaxCacheBytes) =>
          (cachePc' \in {"state", "query"} /\ cachedPath' = cachedPath)]_vars

\* C29: evictOldest(n) clears exactly min(n, number of cached rows) rows, the
\* least recently viewed ones; the file of every cleared row is gone; a file that
\* was already absent does not keep its row from being cleared.
C29_EvictCount ==
  [][(tickPc = "clear" /\ tickPc' # "clear") =>
       LET cleared == {p \in Photos : cached_path[p] /\ ~cached_path'[p]}
       IN /\ Cardinality(cleared) = Min(count, Cardinality(Cached))
          /\ \A p \in cleared : files'[p] = "none" /\ cached_size_bytes'[p] = NULL
          /\ \A a \in cleared, b \in Cached \ cleared :
               last_viewed_at[a] <= last_viewed_at[b]
          /\ \A p \in Photos \ cleared : cached_path'[p] = cached_path[p]]_vars

\* evictOldest(1) has cleared the older of two cached rows and left the other
C29_Witness ==
  /\ tickPc = "degrade"
  /\ count = 1
  /\ \E p, q \in Photos :
       /\ cached_at[p] /\ ~cached_path[p] /\ files[p] = "none"
       /\ cached_path[q] /\ last_viewed_at[p] < last_viewed_at[q]

\* C30 (as claimed): a download that failed validation (format or dimensions, too
\* many raw bytes, output too small) or found the photo gone tombstones the row,
\* leaves it uncached, and the row is never again a prefetch candidate; a download
\* that failed only with a transient network error does not tombstone the row.
C30_TombstoneOnlyPermanent ==
  [][\A p \in Photos :
       /\ (downloadPc[p] = "catch" /\ downloadPc'[p] # "catch") =>
            IF failedWith[p] = "network"
            THEN is_deleted'[p] = is_deleted[p]
            ELSE is_deleted'[p] /\ ~cachedPath'[p]
       /\ (downloadPc'[p] = "request" /\ downloadPc[p] # "request") => ~is_deleted[p]]_vars

C32_MissingFileReleased ==
  [][/\ (displaySel = NULL /\ displaySel' = NULL /\ now' # now) =>
          /\ shown' = shown
          /\ UNCHANGED <<cached_path, cached_size_bytes, last_viewed_at>>
     /\ (displaySel # NULL /\ displaySel' = NULL) =>
          IF files[displaySel] # "none"
          THEN shown' = Append(shown, displaySel)
          ELSE /\ shown' # Append(shown, displaySel)
               /\ ~cached_path'[displaySel]
               /\ cached_size_bytes'[displaySel] = NULL
               /\ displaySel \in Uncached']_vars

LeftAfter(n, k) == IF n > 5 * k THEN n - 5 * k ELSE 0

PastProbe ==
  \/ requests > 0
  \/ opPc \in {"token", "refresh", "write", "writing", "send", "sleep", "returned"}

\* the operation was rejected as offline and did nothing else
RejectedOffline ==
  /\ opPc \in {"thrown", "idle"}
  /\ error = "offline"
  /\ requests = 0
  /\ waits = << >>
  /\ accessToken = startToken
  /\ tokenExpiry = startExpiry

C36_CounterBounded ==
  [][/\ consecutiveFailures' \in 0..3
     /\ (tickPc = "query" /\ tickPc' = "download") => consecutiveFailures < 3
     /\ (tickPc = "query" /\ tickPc' = "idle") =>
          consecutiveFailures' = consecutiveFailures]_vars

\* C37 (as claimed): whether the UPDATE of last_viewed_at issued by a display tick
\* lands before the next tick's query, after it, or fails, the next tick does not
\* select the photo just emitted while another cached photo exists (every other
\* cached photo was viewed earlier or never).
C37_NoRepeatAnyInterleaving ==
  [][(/\ displaySel = NULL
      /\ displaySel' # NULL
      /\ shown # << >>
      /\ Cached \ {shown[Len(shown)]} # {})
       => displaySel' # shown[Len(shown)]]_vars

\* C38 (as claimed): however a display tick interleaves with a cache tick that
\* persists or evicts the same photo, a frame is sent only from the complete file of
\* a row that is cached, and once neither is running no row is uncached with a file
\* on disk or cached with no file.
C38_WholeEntries ==
  [][/\ (displaySel # NULL /\ displaySel' = NULL /\ Readable(displaySel))
          => (files[displaySel] = "full" /\ cached_path[displaySel])
     /\ (~isRunning' /\ displaySel' = NULL)
          => \A p \in Photos : cached_path'[p] <=> files'[p] # "none"]_vars

\* C39 (as claimed): when a parent lookup failed while a created or updated photo
\* was being filtered, getChanges does not return (handing back the next cursor)
\* with the photo left out of the changed photos: the photo is accepted, or the
\* scan throws.
C39_FailedLookupKeepsChange ==
  (memPc = "answered" /\ lookupFailed /\ ~item.deleted) => item.id \in changedIds

\* C40 (as claimed): with a library larger than the cache limit, a provider that
\* always succeeds and cache and display timers that keep firing, every photo is
\* eventually cached and sent in a DISPLAY_PHOTO.
C40_NoStarvation == \A p \in Photos : <>(p \in emitted)

====
